---- MODULE Spec2Model ----
(***************************************************************************)
(* dotenv-guard: schema generation from a .env source (src/generate.js),   *)
(* validation of live variables against the schema (src/validate.js) and   *)
(* the helpers both share (src/utils.js).                                  *)
(*                                                                         *)
(* Strings of the program are sequences of one-character strings, so that  *)
(* indexOf / substring / regular expressions are computed position by      *)
(* position.  A schema file is a sequence of tokens: <<c>> for a literal   *)
(* character c and <<"json", doc>> for the text JSON.stringify(doc,null,2) *)
(* (the serialisation of a whole schema document is kept atomic).          *)
(***************************************************************************)
EXTENDS Integers, Sequences, FiniteSets, TLC

\* const x = e; ...: the value e bound to the name of Body's parameter.
Let(e, Body(_)) == Body(e)

Chars(s) == [i \in 1..Len(s) |-> SubSeq(s, i, i)]

(***************************************************************************)
(* JavaScript string primitives                                            *)
(***************************************************************************)
DigitChars == Chars("0123456789")
UpperChars == Chars("ABCDEFGHIJKLMNOPQRSTUVWXYZ")
LowerChars == Chars("abcdefghijklmnopqrstuvwxyz")
Digits == {DigitChars[i] : i \in 1..10}
Uppers == {UpperChars[i] : i \in 1..26}
Lowers == {LowerChars[i] : i \in 1..26}
Letters == Uppers \cup Lowers
Whitespace == {" ", "\t", "\n", "\r"}

DigitVal(c) == (CHOOSE i \in 1..10 : DigitChars[i] = c) - 1

toLowerCaseChar(c) ==
  IF c \in Uppers THEN LowerChars[CHOOSE i \in 1..26 : UpperChars[i] = c] ELSE c

toLowerCase(s) == [i \in 1..Len(s) |-> toLowerCaseChar(s[i])]

Min(a, b) == IF a < b THEN a ELSE b
Max(a, b) == IF a > b THEN a ELSE b
Clamp(n, len) == Max(0, Min(n, len))

\* String.prototype.substring(a, b): 0-based, end exclusive, arguments
\* clamped to [0, length] and swapped when a > b.
substring(s, a, b) ==
  LET lo == Min(Clamp(a, Len(s)), Clamp(b, Len(s)))
      hi == Max(Clamp(a, Len(s)), Clamp(b, Len(s)))
  IN SubSeq(s, lo + 1, hi)

substringFrom(s, a) == substring(s, a, Len(s))

\* String.prototype.indexOf(t): 0-based index of the first occurrence, -1 if none.
indexOf(s, t) ==
  LET hits == {i \in 0..(Len(s) - Len(t)) : SubSeq(s, i + 1, i + Len(t)) = t}
  IN IF hits = {} THEN -1 ELSE CHOOSE i \in hits : \A j \in hits : i <= j

includes(s, t) == indexOf(s, t) # -1
startsWith(s, t) == Len(t) <= Len(s) /\ SubSeq(s, 1, Len(t)) = t
endsWith(s, t) == Len(t) <= Len(s) /\ SubSeq(s, Len(s) - Len(t) + 1, Len(s)) = t

\* String.prototype.trim()
trim(s) ==
  LET keep == {i \in 1..Len(s) : s[i] \notin Whitespace}
  IN IF keep = {} THEN <<>>
     ELSE SubSeq(s, CHOOSE i \in keep : \A j \in keep : i <= j,
                    CHOOSE i \in keep : \A j \in keep : i >= j)

RECURSIVE join(_, _)
\* Array.prototype.join(sep) on an array of strings
join(parts, sep) ==
  IF parts = <<>> THEN <<>>
  ELSE IF Len(parts) = 1 THEN parts[1]
  ELSE parts[1] \o sep \o join(Tail(parts), sep)

RECURSIVE DigitsToNat(_)
DigitsToNat(ds) ==
  IF ds = <<>> THEN 0
  ELSE 10 * DigitsToNat(SubSeq(ds, 1, Len(ds) - 1)) + DigitVal(ds[Len(ds)])

RECURSIVE NatToChars(_)
\* Number.prototype.toString() of a natural number
NatToChars(n) ==
  IF n < 10 THEN <<DigitChars[n + 1]>>
  ELSE NatToChars(n \div 10) \o <<DigitChars[(n % 10) + 1]>>

IntToChars(n) == IF n < 0 THEN <<"-">> \o NatToChars(-n) ELSE NatToChars(n)

\* Length of the longest run of digits of s starting at 1-based position i.
DigitRun(s, i) ==
  LET stops == {j \in i..(Len(s) + 1) : j = Len(s) + 1 \/ s[j] \notin Digits}
  IN (CHOOSE j \in stops : \A k \in stops : j <= k) - i

Pow10(k) == CASE k = 0 -> 1 [] k = 1 -> 10 [] k = 2 -> 100 [] k = 3 -> 1000
              [] OTHER -> 10000

NaN == [nan |-> TRUE, n |-> 0, d |-> 1]

\* parseInt(s, 10): leading whitespace, optional sign, longest digit prefix.
parseInt(s) ==
  Let(trim(s), LAMBDA t :
  Let(IF t # <<>> /\ t[1] \in {"-", "+"} THEN 1 ELSE 0, LAMBDA sgn :
  Let(DigitRun(t, sgn + 1), LAMBDA run :
  Let(DigitsToNat(SubSeq(t, sgn + 1, sgn + run)), LAMBDA mag :
    IF run = 0 THEN NaN
    ELSE [nan |-> FALSE, n |-> IF t[1] = "-" THEN -mag ELSE mag, d |-> 1]))))

\* parseFloat(s): as parseInt plus an optional fraction; the value is the
\* rational n / d.  (Exponents and "Infinity" are not modelled.)
parseFloat(s) ==
  Let(trim(s), LAMBDA t :
  Let(IF t # <<>> /\ t[1] \in {"-", "+"} THEN 1 ELSE 0, LAMBDA sgn :
  Let(DigitRun(t, sgn + 1), LAMBDA run :
  Let(sgn + run + 1, LAMBDA dot :
  Let(IF dot <= Len(t) /\ t[dot] = "." THEN DigitRun(t, dot + 1) ELSE 0, LAMBDA frun :
  Let(DigitsToNat(SubSeq(t, sgn + 1, sgn + run)) * Pow10(frun)
        + DigitsToNat(SubSeq(t, dot + 1, dot + frun)), LAMBDA mag :
    IF run = 0 /\ frun = 0 THEN NaN
    ELSE [nan |-> FALSE, n |-> IF t[1] = "-" THEN -mag ELSE mag, d |-> Pow10(frun)]))))))

(***************************************************************************)
(* JSON.parse on a value string (library; objects, arrays, numbers without *)
(* exponent, strings without escapes, true / false / null).                *)
(***************************************************************************)
WsRun(s, i) ==
  LET stops == {j \in i..(Len(s) + 1) : j = Len(s) + 1 \/ s[j] \notin Whitespace}
  IN (CHOOSE j \in stops : \A k \in stops : j <= k) - i

skipWs(s, i) == i + WsRun(s, i)

JFail == [ok |-> FALSE, pos |-> 0, v |-> [k |-> "none"]]
JOk(p, val) == [ok |-> TRUE, pos |-> p, v |-> val]

jsonString(s, i) ==
  LET quotes == {j \in (i + 1)..Len(s) : s[j] = "\""}
      j == CHOOSE q \in quotes : \A r \in quotes : q <= r
  IN IF quotes = {} THEN JFail
     ELSE IF \E b \in (i + 1)..(j - 1) : s[b] \in {"\\", "\n", "\t", "\r"} THEN JFail
     ELSE JOk(j + 1, [k |-> "string", t |-> SubSeq(s, i + 1, j - 1)])

jsonNumber(s, i) ==
  Let(IF s[i] = "-" THEN 1 ELSE 0, LAMBDA sgn :
  Let(DigitRun(s, i + sgn), LAMBDA run :
  Let(i + sgn + run, LAMBDA dot :
  Let(dot <= Len(s) /\ s[dot] = ".", LAMBDA hasFrac :
  Let(IF hasFrac THEN DigitRun(s, dot + 1) ELSE 0, LAMBDA frun :
  Let(IF hasFrac THEN dot + 1 + frun ELSE dot, LAMBDA stop :
    IF run = 0 \/ (run > 1 /\ s[i + sgn] = "0") \/ (hasFrac /\ frun = 0) THEN JFail
    ELSE JOk(stop, [k |-> "number", t |-> SubSeq(s, i, stop - 1)])))))))

jsonLiteral(s, i) ==
  Let(SubSeq(s, i, Len(s)), LAMBDA rest :
    IF startsWith(rest, Chars("true")) THEN JOk(i + 4, [k |-> "boolean", t |-> Chars("true")])
    ELSE IF startsWith(rest, Chars("false")) THEN JOk(i + 5, [k |-> "boolean", t |-> Chars("false")])
    ELSE IF startsWith(rest, Chars("null")) THEN JOk(i + 4, [k |-> "null", t |-> Chars("null")])
    ELSE JFail)

RECURSIVE jsonValue(_, _)
RECURSIVE jsonMembers(_, _, _)
RECURSIVE jsonElements(_, _, _)

jsonValue(s, i) ==
  Let(skipWs(s, i), LAMBDA j :
  Let(skipWs(s, j + 1), LAMBDA n :
    IF j > Len(s) THEN JFail
    ELSE IF s[j] = "{" THEN
      (IF n <= Len(s) /\ s[n] = "}"
       THEN JOk(n + 1, [k |-> "object", m |-> <<>>])
       ELSE jsonMembers(s, j + 1, <<>>))
    ELSE IF s[j] = "[" THEN
      (IF n <= Len(s) /\ s[n] = "]"
       THEN JOk(n + 1, [k |-> "array", e |-> <<>>])
       ELSE jsonElements(s, j + 1, <<>>))
    ELSE IF s[j] = "\"" THEN jsonString(s, j)
    ELSE IF s[j] = "-" \/ s[j] \in Digits THEN jsonNumber(s, j)
    ELSE jsonLiteral(s, j)))

jsonMembers(s, i, acc) ==
  Let(skipWs(s, i), LAMBDA j :
  Let(IF j <= Len(s) /\ s[j] = "\"" THEN jsonString(s, j) ELSE JFail, LAMBDA name :
  Let(IF name.ok THEN skipWs(s, name.pos) ELSE 0, LAMBDA c :
  Let(IF name.ok /\ c <= Len(s) /\ s[c] = ":" THEN jsonValue(s, c + 1) ELSE JFail, LAMBDA val :
  Let(IF val.ok THEN skipWs(s, val.pos) ELSE 0, LAMBDA e :
  Let(IF val.ok THEN Append(acc, <<name.v.t, val.v>>) ELSE acc, LAMBDA acc2 :
    IF ~val.ok \/ e > Len(s) THEN JFail
    ELSE IF s[e] = "}" THEN JOk(e + 1, [k |-> "object", m |-> acc2])
    ELSE IF s[e] = "," THEN jsonMembers(s, e + 1, acc2)
    ELSE JFail))))))

jsonElements(s, i, acc) ==
  Let(jsonValue(s, i), LAMBDA val :
  Let(IF val.ok THEN skipWs(s, val.pos) ELSE 0, LAMBDA e :
  Let(IF val.ok THEN Append(acc, val.v) ELSE acc, LAMBDA acc2 :
    IF ~val.ok \/ e > Len(s) THEN JFail
    ELSE IF s[e] = "]" THEN JOk(e + 1, [k |-> "array", e |-> acc2])
    ELSE IF s[e] = "," THEN jsonElements(s, e + 1, acc2)
    ELSE JFail)))

\* JSON.parse(text): ok = FALSE stands for the SyntaxError it throws.
JSONparse(s) ==
  Let(jsonValue(s, 1), LAMBDA r :
    IF r.ok /\ skipWs(s, r.pos) = Len(s) + 1 THEN [ok |-> TRUE, v |-> r.v]
    ELSE [ok |-> FALSE, v |-> [k |-> "none"]])

(***************************************************************************)
(* new URL(text) (library, WHATWG URL without a base): TRUE when the       *)
(* constructor returns, FALSE when it throws.  IPv4 / IDNA host checks are *)
(* not modelled.                                                           *)
(***************************************************************************)
SpecialSchemes == {Chars("http"), Chars("https"), Chars("ftp"), Chars("ws"), Chars("wss")}
ForbiddenHostChars == {" ", "#", "/", ":", "<", ">", "?", "@", "[", "\\", "]", "^", "|", "%",
                       "\t", "\n", "\r"}

\* 1-based position of the first character of s that is in set cs, Len(s)+1 if none.
FirstOf(s, cs) ==
  LET hits == {i \in 1..(Len(s) + 1) : i = Len(s) + 1 \/ s[i] \in cs}
  IN CHOOSE i \in hits : \A j \in hits : i <= j

LastIndexOfChar(s, c) ==
  LET hits == {i \in 0..Len(s) : i = 0 \/ s[i] = c}
  IN CHOOSE i \in hits : \A j \in hits : i >= j

AuthorityOk(auth, mustHaveHost) ==
  Let(LastIndexOfChar(auth, "@"), LAMBDA at :
  Let(SubSeq(auth, at + 1, Len(auth)), LAMBDA hostport :
  Let(LastIndexOfChar(hostport, ":"), LAMBDA colon :
  Let(IF colon = 0 THEN hostport ELSE SubSeq(hostport, 1, colon - 1), LAMBDA host :
  Let(IF colon = 0 THEN <<>> ELSE SubSeq(hostport, colon + 1, Len(hostport)), LAMBDA port :
    /\ (mustHaveHost \/ at > 0 \/ colon > 0) => host # <<>>
    /\ \A i \in 1..Len(host) : host[i] \notin ForbiddenHostChars
    /\ \A i \in 1..Len(port) : port[i] \in Digits
    /\ Len(port) <= 5
    /\ DigitsToNat(port) <= 65535)))))

SlashRun(s) == FirstOf(s, {c \in {s[i] : i \in 1..Len(s)} : c \notin {"/", "\\"}}) - 1

IsValidURL(s) ==
  Let(trim(s), LAMBDA t :
  Let(indexOf(t, <<":">>), LAMBDA c :
  Let(toLowerCase(SubSeq(t, 1, c)), LAMBDA scheme :
  Let(SubSeq(t, c + 2, Len(t)), LAMBDA rest :
  Let(SubSeq(rest, SlashRun(rest) + 1, Len(rest)), LAMBDA afterSlashes :
  Let(SubSeq(rest, 3, Len(rest)), LAMBDA opaqueRest :
    /\ c >= 1
    /\ t[1] \in Letters
    /\ \A i \in 2..c : t[i] \in Letters \cup Digits \cup {"+", "-", "."}
    /\ IF scheme \in SpecialSchemes
       THEN AuthorityOk(SubSeq(afterSlashes, 1,
                               FirstOf(afterSlashes, {"/", "\\", "?", "#"}) - 1), TRUE)
       ELSE IF scheme = Chars("file") THEN TRUE
       ELSE IF startsWith(rest, Chars("//"))
         THEN AuthorityOk(SubSeq(opaqueRest, 1, FirstOf(opaqueRest, {"/", "?", "#"}) - 1), FALSE)
       ELSE TRUE))))))

(***************************************************************************)
(* JSON.stringify(value, null, 2) of a parsed value (library).  Numbers    *)
(* are printed with the digits they were read with.                        *)
(***************************************************************************)
Spaces(n) == [i \in 1..n |-> " "]

RECURSIVE jsonStringify(_, _)
RECURSIVE stringifyMembers(_, _)
RECURSIVE stringifyElements(_, _)

jsonStringify(v, ind) ==
  CASE v.k = "object" ->
         IF v.m = <<>> THEN Chars("{}")
         ELSE Chars("{\n") \o stringifyMembers(v.m, ind + 2) \o Chars("\n") \o Spaces(ind) \o Chars("}")
    [] v.k = "array" ->
         IF v.e = <<>> THEN Chars("[]")
         ELSE Chars("[\n") \o stringifyElements(v.e, ind + 2) \o Chars("\n") \o Spaces(ind) \o Chars("]")
    [] v.k = "string" -> <<"\"">> \o v.t \o <<"\"">>
    [] OTHER -> v.t

stringifyMembers(m, ind) ==
  LET one == Spaces(ind) \o <<"\"">> \o m[1][1] \o Chars("\": ") \o jsonStringify(m[1][2], ind)
  IN IF Len(m) = 1 THEN one ELSE one \o Chars(",\n") \o stringifyMembers(Tail(m), ind)

stringifyElements(e, ind) ==
  LET one == Spaces(ind) \o jsonStringify(e[1], ind)
  IN IF Len(e) = 1 THEN one ELSE one \o Chars(",\n") \o stringifyElements(Tail(e), ind)

(***************************************************************************)
(* src/utils.js: inferType, isSecretKey, generateExampleValue              *)
(***************************************************************************)
\* /^(true|false)$/i
IsBooleanText(s) == toLowerCase(s) \in {Chars("true"), Chars("false")}

\* /^\d+$/ in the place of /^-?\d+$/.
IsIntegerText_Unsigned(s) ==
  LET sgn == 0
  IN Len(s) > sgn /\ DigitRun(s, sgn + 1) = Len(s) - sgn

\* /^-?\d+$/
IsIntegerText(s) ==
  LET sgn == IF s # <<>> /\ s[1] = "-" THEN 1 ELSE 0
  IN Len(s) > sgn /\ DigitRun(s, sgn + 1) = Len(s) - sgn

\* /^-?\d+\.\d+$/
IsFloatText(s) ==
  LET sgn == IF s # <<>> /\ s[1] = "-" THEN 1 ELSE 0
      run == DigitRun(s, sgn + 1)
      dot == sgn + run + 1
  IN /\ run >= 1
     /\ dot < Len(s)
     /\ s[dot] = "."
     /\ DigitRun(s, dot + 1) = Len(s) - dot

\* /^[^\s@]+@[^\s@]+\.[^\s@]+$/
IsEmailText(s) ==
  LET ats == {i \in 1..Len(s) : s[i] = "@"}
      at == CHOOSE i \in ats : TRUE
  IN /\ \A i \in 1..Len(s) : s[i] \notin Whitespace
     /\ Cardinality(ats) = 1
     /\ at > 1
     /\ \E d \in (at + 2)..(Len(s) - 1) : s[d] = "."

\* /^\d+$/
IsDigitsText(s) == s # <<>> /\ DigitRun(s, 1) = Len(s)

\* inferType testing the value as it stands, without trim().
inferType_Untrimmed(value) ==
  Let(parseInt(value), LAMBDA num :
    IF value = <<>> THEN "string"
    ELSE IF IsBooleanText(value) THEN "boolean"
    ELSE IF IsIntegerText(value) THEN "integer"
    ELSE IF IsFloatText(value) THEN "number"
    ELSE IF IsValidURL(value) /\
            (startsWith(value, Chars("http://")) \/ startsWith(value, Chars("https://"))
               \/ startsWith(value, Chars("ftp://"))) THEN "url"
    ELSE IF ((startsWith(value, <<"{">>) /\ endsWith(value, <<"}">>)) \/
             (startsWith(value, <<"[">>) /\ endsWith(value, <<"]">>)))
            /\ JSONparse(value).ok THEN "json"
    ELSE IF IsEmailText(value) THEN "email"
    ELSE IF IsDigitsText(value) /\ num.n > 0 /\ num.n <= 65535 THEN "port"
    ELSE "string")

inferType(value) ==
  Let(trim(value), LAMBDA trimmed :
  Let(parseInt(value), LAMBDA num :
    IF value = <<>> THEN "string"
    ELSE IF IsBooleanText(trimmed) THEN "boolean"
    ELSE IF IsIntegerText(trimmed) THEN "integer"
    ELSE IF IsFloatText(trimmed) THEN "number"
    ELSE IF IsValidURL(value) /\
            (startsWith(value, Chars("http://")) \/ startsWith(value, Chars("https://"))
               \/ startsWith(value, Chars("ftp://"))) THEN "url"
    ELSE IF ((startsWith(value, <<"{">>) /\ endsWith(value, <<"}">>)) \/
             (startsWith(value, <<"[">>) /\ endsWith(value, <<"]">>)))
            /\ JSONparse(value).ok THEN "json"
    ELSE IF IsEmailText(value) THEN "email"
    ELSE IF IsDigitsText(value) /\ num.n > 0 /\ num.n <= 65535 THEN "port"
    ELSE "string"))

isSecretKey(key) ==
  LET k == toLowerCase(key)
  IN \/ includes(k, Chars("password"))
     \/ includes(k, Chars("secret"))
     \/ includes(k, Chars("token"))
     \/ endsWith(k, Chars("key"))
     \/ startsWith(k, Chars("api_key"))
     \/ includes(k, Chars("auth"))
     \/ includes(k, Chars("private"))
     \/ includes(k, Chars("credential"))
     \/ endsWith(k, Chars("_key"))
     \/ endsWith(k, Chars("_secret"))
     \/ endsWith(k, Chars("_token"))
     \/ includes(k, Chars("jwt"))
     \/ includes(k, Chars("bearer"))

\* The secret branch of generateExampleValue: the placeholder per type.
SecretPlaceholder(type) ==
  CASE type = "string" -> Chars("your-secret-here")
    [] type \in {"integer", "number", "port"} -> Chars("***")
    [] type = "boolean" -> Chars("true")
    [] type = "url" -> Chars("https://your-secret-url.com")
    [] type = "email" -> Chars("your-email@example.com")
    [] type = "json" -> Chars("{\"secret\": \"value\"}")
    [] OTHER -> Chars("your-secret-here")

\* generateExampleValue that keeps the URL of a secret key, as it does for
\* the other keys.
generateExampleValue_SecretUrlKept(key, value, type) ==
  Let(JSONparse(value), LAMBDA parsed :
    IF isSecretKey(key) /\ type # "url" THEN SecretPlaceholder(type)
    ELSE CASE type = "boolean" ->
                IF toLowerCase(value) = Chars("true") THEN Chars("true") ELSE Chars("false")
           [] type \in {"integer", "number", "port", "url", "email"} -> value
           [] type = "json" ->
                IF parsed.ok THEN jsonStringify(parsed.v, 0) ELSE value
           [] OTHER ->
                IF Len(value) > 20 THEN substring(value, 0, 20) \o Chars("...") ELSE value)

generateExampleValue(key, value, type) ==
  Let(JSONparse(value), LAMBDA parsed :
    IF isSecretKey(key) THEN SecretPlaceholder(type)
    ELSE CASE type = "boolean" ->
                IF toLowerCase(value) = Chars("true") THEN Chars("true") ELSE Chars("false")
           [] type \in {"integer", "number", "port", "url", "email"} -> value
           [] type = "json" ->
                IF parsed.ok THEN jsonStringify(parsed.v, 0) ELSE value
           [] OTHER ->
                IF Len(value) > 20 THEN substring(value, 0, 20) \o Chars("...") ELSE value)

(***************************************************************************)
(* JavaScript objects are records whose domain is the set of properties    *)
(* that are present.  A property descriptor may have the fields type,      *)
(* description, format, minimum, maximum, minLength, required and meta     *)
(* (the _meta object: inferred, originalType, isSecret, detectedInCode).   *)
(* An array-valued `type` is written as one tag naming its elements.       *)
(***************************************************************************)
EmptyObject == [f \in {} |-> FALSE]
Has(obj, f) == f \in DOMAIN obj

\* { ...a, ...b }
Spread(a, b) == [f \in (DOMAIN a) \cup (DOMAIN b) |-> IF f \in DOMAIN b THEN b[f] ELSE a[f]]

ObjectOrArray == "[object,array]"
StringOrNull == "[string,null]"
ArrayTypes == {ObjectOrArray, StringOrNull}

\* propSchema._meta?.isSecret (undefined is falsy)
MetaIsSecret(propSchema) ==
  Has(propSchema, "meta") /\ Has(propSchema.meta, "isSecret") /\ propSchema.meta.isSecret

(***************************************************************************)
(* src/utils.js: convertValue.  A converted value is [t |-> the JavaScript *)
(* type, ...]; ok = FALSE stands for the Error thrown, msg for its text.   *)
(***************************************************************************)
JString(s) == [t |-> "string", s |-> s]
JNumber(n, d) == [t |-> "number", n |-> n, d |-> d]
JBoolean(b) == [t |-> "boolean", b |-> b]

\* The JavaScript value JSON.parse returns for a parsed tree.
JsonToValue(v) ==
  Let(parseFloat(v.t), LAMBDA num :
    CASE v.k = "object" -> [t |-> "object", j |-> v]
      [] v.k = "array" -> [t |-> "array", j |-> v]
      [] v.k = "string" -> JString(v.t)
      [] v.k = "number" -> JNumber(num.n, num.d)
      [] v.k = "boolean" -> JBoolean(v.t = Chars("true"))
      [] OTHER -> [t |-> "null"])

Converted(val) == [ok |-> TRUE, v |-> val, msg |-> <<>>]
ConversionError(m) == [ok |-> FALSE, v |-> [t |-> "undefined"], msg |-> m]

\* convertValue accepting only the lower-case words as booleans.
convertValue_ExactBoolean(value, type) ==
  Let(parseInt(value), LAMBDA intVal :
  Let(parseFloat(value), LAMBDA numVal :
  Let(JSONparse(value), LAMBDA parsed :
    CASE type = "boolean" ->
           IF value \in {Chars("true"), Chars("false")}
           THEN Converted(JBoolean(value = Chars("true")))
           ELSE ConversionError(Chars("Cannot convert \"") \o value \o Chars("\" to boolean"))
      [] type = "integer" ->
           IF intVal.nan
           THEN ConversionError(Chars("Cannot convert \"") \o value \o Chars("\" to integer"))
           ELSE Converted(JNumber(intVal.n, 1))
      [] type \in {"number", "port"} ->
           IF numVal.nan
           THEN ConversionError(Chars("Cannot convert \"") \o value \o Chars("\" to number"))
           ELSE Converted(JNumber(numVal.n, numVal.d))
      [] type = "json" ->
           IF parsed.ok THEN Converted(JsonToValue(parsed.v))
           ELSE ConversionError(Chars("Cannot parse \"") \o value \o Chars("\" as JSON"))
      [] type = "url" ->
           IF IsValidURL(value) THEN Converted(JString(value))
           ELSE ConversionError(<<"\"">> \o value \o Chars("\" is not a valid URL"))
      [] type = "email" ->
           IF IsEmailText(value) THEN Converted(JString(value))
           ELSE ConversionError(<<"\"">> \o value \o Chars("\" is not a valid email"))
      [] OTHER -> Converted(JString(value)))))

convertValue(value, type) ==
  Let(parseInt(value), LAMBDA intVal :
  Let(parseFloat(value), LAMBDA numVal :
  Let(JSONparse(value), LAMBDA parsed :
    CASE type = "boolean" -> Converted(JBoolean(toLowerCase(value) = Chars("true")))
      [] type = "integer" ->
           IF intVal.nan
           THEN ConversionError(Chars("Cannot convert \"") \o value \o Chars("\" to integer"))
           ELSE Converted(JNumber(intVal.n, 1))
      [] type \in {"number", "port"} ->
           IF numVal.nan
           THEN ConversionError(Chars("Cannot convert \"") \o value \o Chars("\" to number"))
           ELSE Converted(JNumber(numVal.n, numVal.d))
      [] type = "json" ->
           IF parsed.ok THEN Converted(JsonToValue(parsed.v))
           ELSE ConversionError(Chars("Cannot parse \"") \o value \o Chars("\" as JSON"))
      [] type = "url" ->
           IF IsValidURL(value) THEN Converted(JString(value))
           ELSE ConversionError(<<"\"">> \o value \o Chars("\" is not a valid URL"))
      [] type = "email" ->
           IF IsEmailText(value) THEN Converted(JString(value))
           ELSE ConversionError(<<"\"">> \o value \o Chars("\" is not a valid email"))
      [] OTHER -> Converted(JString(value)))))

(***************************************************************************)
(* src/validate.js: the structural check built by createZodSchema and run  *)
(* by zodSchema.parse (zod: library; message = issues[0].message).         *)
(***************************************************************************)
AlnumChars == Letters \cup Digits

\* zod's e-mail pattern:
\* /^(?!\.)(?!.*\.\.)([A-Z0-9_'+\-\.]*)[A-Z0-9_+-]@([A-Z0-9][A-Z0-9\-]*\.)+[A-Z]{2,}$/i
ZodIsEmail(s) ==
  Let(indexOf(s, <<"@">>), LAMBDA at :
  Let(SubSeq(s, 1, at), LAMBDA local :
  Let(SubSeq(s, at + 2, Len(s)), LAMBDA dom :
  Let(LastIndexOfChar(dom, "."), LAMBDA lastDot :
    /\ at >= 1
    /\ s[1] # "."
    /\ ~includes(s, Chars(".."))
    /\ \A i \in 1..Len(local) : local[i] \in AlnumChars \cup {"_", "'", "+", "-", "."}
    /\ local[Len(local)] \in AlnumChars \cup {"_", "+", "-"}
    /\ \A i \in 1..Len(dom) : dom[i] \in AlnumChars \cup {"-", "."}
    /\ lastDot > 1
    /\ dom[1] \in AlnumChars
    /\ \A i \in 1..(Len(dom) - 1) : dom[i] = "." => dom[i + 1] \in AlnumChars
    /\ Len(dom) - lastDot >= 2
    /\ \A i \in (lastDot + 1)..Len(dom) : dom[i] \in Letters))))

ZodOk == [ok |-> TRUE, message |-> <<>>]
ZodIssue(m) == [ok |-> FALSE, message |-> m]

ExpectedReceived(expected, cv) ==
  ZodIssue(Chars("Expected ") \o Chars(expected) \o Chars(", received ") \o Chars(cv.t))

ZodStringCheck(propSchema, key, cv, withChecks) ==
  IF cv.t # "string" THEN ExpectedReceived("string", cv)
  ELSE IF withChecks /\ Has(propSchema, "minLength") /\ Len(cv.s) < propSchema.minLength
       THEN ZodIssue(Chars("String must contain at least ") \o IntToChars(propSchema.minLength)
                       \o Chars(" character(s)"))
  ELSE IF withChecks /\ Has(propSchema, "format") /\ propSchema.format = "uri" /\ ~IsValidURL(cv.s)
       THEN ZodIssue(key \o Chars(" must be a valid URL"))
  ELSE IF withChecks /\ Has(propSchema, "format") /\ propSchema.format = "email" /\ ~ZodIsEmail(cv.s)
       THEN ZodIssue(key \o Chars(" must be a valid email"))
  ELSE ZodOk

ZodNumberCheck(propSchema, key, cv, int) ==
  IF cv.t # "number" THEN ExpectedReceived("number", cv)
  ELSE IF int /\ cv.n % cv.d # 0 THEN ZodIssue(key \o Chars(" must be an integer"))
  ELSE IF Has(propSchema, "minimum") /\ cv.n < propSchema.minimum * cv.d
       THEN ZodIssue(Chars("Number must be greater than or equal to ") \o IntToChars(propSchema.minimum))
  ELSE IF Has(propSchema, "maximum") /\ cv.n > propSchema.maximum * cv.d
       THEN ZodIssue(Chars("Number must be less than or equal to ") \o IntToChars(propSchema.maximum))
  ELSE ZodOk

\* createZodSchema(propSchema, key).parse(cv)
createZodSchema(propSchema, key, cv) ==
  Let(IF Has(propSchema, "type") THEN propSchema.type ELSE "undefined", LAMBDA type :
    IF type = ObjectOrArray
    THEN (IF cv.t \in {"object", "array"} THEN ZodOk ELSE ZodIssue(Chars("Invalid input")))
    ELSE CASE type = "integer" -> ZodNumberCheck(propSchema, key, cv, TRUE)
           [] type = "number" -> ZodNumberCheck(propSchema, key, cv, FALSE)
           [] type = "boolean" ->
                IF cv.t = "boolean" THEN ZodOk ELSE ExpectedReceived("boolean", cv)
           [] type = "object" ->
                IF cv.t = "object" THEN ZodOk ELSE ExpectedReceived("object", cv)
           [] type = "array" ->
                IF cv.t = "array" THEN ZodOk ELSE ExpectedReceived("array", cv)
           [] OTHER -> ZodStringCheck(propSchema, key, cv, type = "string"))

inferTypeFromSchema(propSchema) ==
  LET type == IF Has(propSchema, "type") THEN propSchema.type ELSE "undefined"
      format == IF Has(propSchema, "format") THEN propSchema.format ELSE "undefined"
  IN IF format = "uri" THEN "url"
     ELSE IF format = "email" THEN "email"
     ELSE IF type = "boolean" THEN "boolean"
     ELSE IF type = "integer" THEN "integer"
     ELSE IF type = "number" THEN "number"
     ELSE IF type = ObjectOrArray THEN "json"
     ELSE "string"

\* The type convertValueForValidation converts to.
ConversionType(propSchema) ==
  IF Has(propSchema, "meta") /\ Has(propSchema.meta, "originalType")
  THEN propSchema.meta.originalType
  ELSE inferTypeFromSchema(propSchema)

\* A failed conversion hands the raw string to the structural check.
convertValueForValidation(value, propSchema) ==
  Let(convertValue(value, ConversionType(propSchema)), LAMBDA r :
    IF r.ok THEN r.v ELSE JString(value))

\* formatValidationError without the redaction of secret values.
formatValidationError_Unredacted(key, value, propSchema, message) ==
  key \o <<"=">> \o value \o Chars(": ") \o message

formatValidationError(key, value, propSchema, message) ==
  LET displayValue == IF MetaIsSecret(propSchema) THEN Chars("[REDACTED]") ELSE value
  IN key \o <<"=">> \o displayValue \o Chars(": ") \o message

isWarningOnly(propSchema, message) == FALSE

SystemVarPrefixes ==
  {Chars("PATH"), Chars("HOME"), Chars("USER"), Chars("SHELL"), Chars("TERM"), Chars("PWD"),
   Chars("OLDPWD"), Chars("NODE_ENV"), Chars("NODE_PATH"), Chars("NODE_OPTIONS"),
   Chars("npm_package_name"), Chars("npm_package_version"), Chars("npm_config_"),
   Chars("CI"), Chars("GITHUB_"), Chars("TRAVIS_"), Chars("CIRCLE_"), Chars("JENKINS_")}

isSystemEnvVar(key) == \E sysVar \in SystemVarPrefixes : key = sysVar \/ startsWith(key, sysVar)

(***************************************************************************)
(* Files.  A file is [exists, content]; the content of a schema file is a  *)
(* sequence of tokens, <<c>> for the character c and <<"json", doc>> for   *)
(* the JSON text of the document doc.                                      *)
(***************************************************************************)
NoFile == [exists |-> FALSE, content |-> <<>>]
File(content) == [exists |-> TRUE, content |-> content]

Text(s) == [i \in 1..Len(s) |-> <<SubSeq(s, i, i)>>]
JsonText(doc) == << <<"json", doc>> >>
IsJsonToken(tok) == Len(tok) = 2
IsWhitespaceToken(tok) == Len(tok) = 1 /\ tok[1] \in Whitespace

\* String.prototype.trim() on file content
trimText(content) ==
  LET keep == {i \in 1..Len(content) : ~IsWhitespaceToken(content[i])}
  IN IF keep = {} THEN <<>>
     ELSE SubSeq(content, CHOOSE i \in keep : \A j \in keep : i <= j,
                          CHOOSE i \in keep : \A j \in keep : i >= j)

\* JSON.parse(content) of file content: the text of exactly one document,
\* with optional surrounding whitespace; anything else is a SyntaxError.
parseJsonText(content) ==
  Let(trimText(content), LAMBDA t :
    IF Len(t) = 1 /\ IsJsonToken(t[1]) THEN [ok |-> TRUE, doc |-> t[1][2]]
    ELSE [ok |-> FALSE, doc |-> EmptyObject])

ShieldStart == Text("// dotenv-shield:start")
ShieldEnd == Text("// dotenv-shield:end")
GuardStart == Text("// dotenv-guard:start")
GuardEnd == Text("// dotenv-guard:end")

\* parseSchemaMarkers looking for the marker lines generateSchema writes.
parseSchemaMarkers_GuardMarkers(content) ==
  Let(indexOf(content, GuardStart), LAMBDA startIndex :
  Let(indexOf(content, GuardEnd), LAMBDA endIndex :
    IF startIndex = -1 \/ endIndex = -1
    THEN [found |-> FALSE, before |-> <<>>, after |-> <<>>, startIndex |-> 0, endIndex |-> 0]
    ELSE [found |-> TRUE,
          before |-> substring(content, 0, startIndex),
          after |-> substringFrom(content, endIndex + Len(GuardEnd)),
          startIndex |-> startIndex,
          endIndex |-> endIndex + Len(GuardEnd)]))

parseSchemaMarkers(content) ==
  Let(indexOf(content, ShieldStart), LAMBDA startIndex :
  Let(indexOf(content, ShieldEnd), LAMBDA endIndex :
    IF startIndex = -1 \/ endIndex = -1
    THEN [found |-> FALSE, before |-> <<>>, after |-> <<>>, startIndex |-> 0, endIndex |-> 0]
    ELSE [found |-> TRUE,
          before |-> substring(content, 0, startIndex),
          after |-> substringFrom(content, endIndex + Len(ShieldEnd)),
          startIndex |-> startIndex,
          endIndex |-> endIndex + Len(ShieldEnd)]))

(***************************************************************************)
(* src/validate.js: loadSchema, validateEnv                                *)
(***************************************************************************)
\* What JSON.parse returns for the text `null`, and the TypeError that
\* reading a property of it throws.
JsonNull == [k |-> "null"]
NullPropertyError == Chars("Cannot read properties of null (reading 'properties')")

LoadError(m) == [ok |-> FALSE, schema |-> EmptyObject, error |-> m]

loadSchema(file) ==
  Let(file.content, LAMBDA content :
  Let(parseSchemaMarkers(content), LAMBDA markers :
  Let(IF markers.found
      THEN trimText(substring(content, markers.startIndex + Len(ShieldStart),
                              markers.endIndex - Len(ShieldEnd)))
      ELSE content, LAMBDA jsonContent :
  Let(parseJsonText(jsonContent), LAMBDA parsed :
    IF ~file.exists THEN LoadError(Chars("Schema file not found: .env.schema.json"))
    ELSE IF ~parsed.ok THEN LoadError(Chars("Invalid JSON in schema file: Unexpected token"))
    ELSE [ok |-> TRUE, schema |-> parsed.doc, error |-> <<>>]))))

\* A live environment is a sequence of <<name, value>> entries with
\* distinct names; <<name>> is a name whose value is undefined.
EnvKeys(envVars) == [i \in 1..Len(envVars) |-> envVars[i][1]]
EnvHas(envVars, key) == \E i \in 1..Len(envVars) : envVars[i][1] = key
EnvDefined(envVars, key) == \E i \in 1..Len(envVars) : envVars[i][1] = key /\ Len(envVars[i]) = 2
EnvValue(envVars, key) == envVars[CHOOSE i \in 1..Len(envVars) : envVars[i][1] = key][2]

\* IsMissing as validateRequiredEnvVars tests it: only `key in envVars`.
IsMissing_KeyAbsentOnly(envVars, key) == ~EnvHas(envVars, key)

\* !(key in envVars) || envVars[key] === '' || envVars[key] === undefined
IsMissing(envVars, key) ==
  \/ ~EnvHas(envVars, key)
  \/ ~EnvDefined(envVars, key)
  \/ EnvValue(envVars, key) = <<>>

\* value === undefined || value === ''
IsUnset(envVars, key) == ~EnvDefined(envVars, key) \/ EnvValue(envVars, key) = <<>>

SeqIncludes(seq, x) == \E i \in 1..Len(seq) : seq[i] = x

MissingRequiredError(key) == Chars("Missing required environment variable: ") \o key

UnexpectedWarning(key) ==
  Chars("Unexpected environment variable: ") \o key \o Chars(" (not defined in schema)")

\* The outcome of zodSchema.parse(convertValueForValidation(value, propSchema))
CheckValue(key, value, propSchema) ==
  createZodSchema(propSchema, key, convertValueForValidation(value, propSchema))

\* ValidationReport in which a warning also fails the run.
ValidationReport_WarningsFail(errors, warnings, validatedCount, totalVariables) ==
  [threw |-> FALSE,
   success |-> Len(errors) = 0 /\ Len(warnings) = 0,
   errors |-> errors,
   warnings |-> warnings,
   validatedCount |-> validatedCount,
   totalVariables |-> totalVariables]

ValidationReport(errors, warnings, validatedCount, totalVariables) ==
  [threw |-> FALSE,
   success |-> Len(errors) = 0,
   errors |-> errors,
   warnings |-> warnings,
   validatedCount |-> validatedCount,
   totalVariables |-> totalVariables]

Thrown(m) == [threw |-> TRUE, error |-> m]

\* One pass of the loop over properties for the entry e = <<key, propSchema>>:
\* "unset" when the value is skipped, "valid" when it passes, otherwise
\* "error" or "warning" with the line that is pushed.
PropertyOutcome(e, envVars, ciMode) ==
  IF IsUnset(envVars, e[1]) THEN [kind |-> "unset", line |-> <<>>]
  ELSE Let(EnvValue(envVars, e[1]), LAMBDA value :
       Let(CheckValue(e[1], value, e[2]), LAMBDA res :
         IF res.ok THEN [kind |-> "valid", line |-> <<>>]
         ELSE [kind |-> IF ~(ciMode \/ MetaIsSecret(e[2])) /\ isWarningOnly(e[2], res.message)
                        THEN "warning" ELSE "error",
               line |-> formatValidationError(e[1], value, e[2], res.message)]))

\* The lines of the outcomes of one kind, in the order of the loop.
OutcomeLines(outcomes, kind) ==
  Let(SelectSeq(outcomes, LAMBDA o : o.kind = kind), LAMBDA sel :
    [i \in 1..Len(sel) |-> sel[i].line])

\* RequiredErrors giving up after the first missing name.
RequiredErrors_FirstOnly(required, envVars) ==
  Let(SelectSeq(required, LAMBDA key : IsMissing(envVars, key)), LAMBDA missing :
    [i \in 1..(IF Len(missing) > 0 THEN 1 ELSE 0) |-> MissingRequiredError(missing[i])])

RequiredErrors(required, envVars) ==
  Let(SelectSeq(required, LAMBDA key : IsMissing(envVars, key)), LAMBDA missing :
    [i \in 1..Len(missing) |-> MissingRequiredError(missing[i])])

\* UnexpectedWarnings pushing its notices in CI and non-CI mode alike.
UnexpectedWarnings_AnyMode(schema, properties, envVars, ciMode) ==
  Let([i \in 1..Len(properties) |-> properties[i][1]], LAMBDA definedKeys :
  Let(IF Has(schema, "additionalProperties") /\ schema.additionalProperties = FALSE
      THEN SelectSeq(EnvKeys(envVars), LAMBDA key : /\ ~SeqIncludes(definedKeys, key)
                                                    /\ ~startsWith(key, <<"_">>)
                                                    /\ ~isSystemEnvVar(key))
      ELSE <<>>, LAMBDA unexpectedKeys :
    [i \in 1..Len(unexpectedKeys) |-> UnexpectedWarning(unexpectedKeys[i])]))

UnexpectedWarnings(schema, properties, envVars, ciMode) ==
  Let([i \in 1..Len(properties) |-> properties[i][1]], LAMBDA definedKeys :
  Let(IF Has(schema, "additionalProperties") /\ schema.additionalProperties = FALSE
      THEN SelectSeq(EnvKeys(envVars), LAMBDA key : /\ ~SeqIncludes(definedKeys, key)
                                                    /\ ~startsWith(key, <<"_">>)
                                                    /\ ~isSystemEnvVar(key))
      ELSE <<>>, LAMBDA unexpectedKeys :
    IF Len(unexpectedKeys) > 0 /\ ciMode
    THEN [i \in 1..Len(unexpectedKeys) |-> UnexpectedWarning(unexpectedKeys[i])]
    ELSE <<>>))

validateEnv(schemaFile, envVars, ciMode) ==
  Let(loadSchema(schemaFile), LAMBDA loaded :
  Let(loaded.schema, LAMBDA schema :
    IF ~loaded.ok THEN Thrown(loaded.error)
    ELSE IF schema = JsonNull THEN Thrown(NullPropertyError)
    ELSE IF ~Has(schema, "properties") THEN Thrown(Chars("Invalid schema: missing properties"))
    ELSE
      Let(schema.properties, LAMBDA properties :
      Let(IF Has(schema, "required") THEN schema.required ELSE <<>>, LAMBDA required :
      Let([i \in 1..Len(properties) |-> PropertyOutcome(properties[i], envVars, ciMode)],
          LAMBDA outcomes :
        ValidationReport(
          RequiredErrors(required, envVars) \o OutcomeLines(outcomes, "error"),
          OutcomeLines(outcomes, "warning")
            \o UnexpectedWarnings(schema, properties, envVars, ciMode),
          Cardinality({i \in 1..Len(outcomes) : outcomes[i].kind = "valid"}),
          Len(properties)))))))

(***************************************************************************)
(* src/generate.js: generateSchema.  The source is the result of           *)
(* dotenv.parse: a sequence of <<key, value>> entries with distinct keys.  *)
(* A schema document is a record with the fields properties (a sequence of *)
(* <<key, descriptor>>, in insertion order), required, additionalProperties*)
(* and meta; a hand-written one may lack any of them.                      *)
(***************************************************************************)
getJsonSchemaType(type) ==
  CASE type = "boolean" -> "boolean"
    [] type \in {"integer", "port"} -> "integer"
    [] type = "number" -> "number"
    [] type = "json" -> ObjectOrArray
    [] OTHER -> "string"

getTypeSpecificConstraints(type, value) ==
  Let(parseInt(value), LAMBDA intVal :
    CASE type = "port" -> [minimum |-> 1, maximum |-> 65535]
      [] type = "url" -> [format |-> "uri"]
      [] type = "email" -> [format |-> "email"]
      [] type = "string" -> IF Len(value) > 0 THEN [minLength |-> 1] ELSE EmptyObject
      [] type = "integer" ->
           IF value # <<>> /\ ~intVal.nan /\ intVal.n >= 0
           THEN [minimum |-> 0] ELSE EmptyObject
      [] OTHER -> EmptyObject)

\* new Date(t).toISOString() for a clock reading of t milliseconds, t < 100
toISOString(t) ==
  Chars("1970-01-01T00:00:00.0") \o <<DigitChars[(t \div 10) + 1], DigitChars[(t % 10) + 1]>> \o <<"Z">>

PropKeys(properties) == [i \in 1..Len(properties) |-> properties[i][1]]
HasProp(properties, key) == \E i \in 1..Len(properties) : properties[i][1] = key
GetProp(properties, key) == properties[CHOOSE i \in 1..Len(properties) : properties[i][1] = key][2]

\* Lines 41-64: the prior document merge mode works from ({} when the file
\* is absent, merge is off, or the content does not parse).
loadExistingSchema(merge, schemaFile) ==
  Let(schemaFile.content, LAMBDA existingContent :
  Let(parseSchemaMarkers(existingContent), LAMBDA markers :
  Let(IF markers.found
      THEN trimText(substring(existingContent,
                              markers.startIndex + Len(GuardStart),
                              markers.endIndex - Len(GuardEnd)))
      ELSE existingContent, LAMBDA jsonContent :
  Let(parseJsonText(jsonContent), LAMBDA parsed :
    IF merge /\ schemaFile.exists /\ parsed.ok THEN parsed.doc ELSE EmptyObject))))

\* existingSchema.properties?.[key] || {}
ExistingProp(existingSchema, key) ==
  IF Has(existingSchema, "properties") /\ HasProp(existingSchema.properties, key)
  THEN GetProp(existingSchema.properties, key)
  ELSE EmptyObject

\* existingSchema.required?.includes(key)
ExistingRequired(existingSchema, key) ==
  Has(existingSchema, "required") /\ SeqIncludes(existingSchema.required, key)

DefaultDescription(key) == key \o Chars(" environment variable")

\* Lines 88-111: the descriptor written for one source entry.
BuildDescriptor(key, value, existingProp, detectedVars) ==
  Let(inferType(value), LAMBDA type :
  Let(IF Has(existingProp, "description") /\ existingProp.description # <<>>
      THEN existingProp.description ELSE DefaultDescription(key), LAMBDA description :
  Let(IF Has(existingProp, "meta") THEN existingProp.meta ELSE EmptyObject, LAMBDA existingMeta :
  Let(Spread(Spread([type |-> getJsonSchemaType(type), description |-> description],
                    getTypeSpecificConstraints(type, value)),
             [meta |-> Spread([inferred |-> TRUE,
                               originalType |-> type,
                               isSecret |-> isSecretKey(key),
                               detectedInCode |-> SeqIncludes(detectedVars, key)],
                              existingMeta)]), LAMBDA fresh :
    IF Has(existingProp, "type") THEN [fresh EXCEPT !.type = existingProp.type] ELSE fresh))))

\* Lines 90, 112-118: whether a source key is pushed onto `required`.
IsRequiredKey(key, existingSchema, detectedVars) ==
  Let(ExistingProp(existingSchema, key), LAMBDA existingProp :
    \/ IF Has(existingProp, "required") THEN existingProp.required
       ELSE SeqIncludes(detectedVars, key)
    \/ ExistingRequired(existingSchema, key))

\* [...new Set(required)]
RECURSIVE Dedupe(_)
Dedupe(seq) ==
  IF seq = <<>> THEN <<>>
  ELSE Let(Dedupe(SubSeq(seq, 1, Len(seq) - 1)), LAMBDA init :
         IF SeqIncludes(init, seq[Len(seq)]) THEN init ELSE Append(init, seq[Len(seq)]))

\* Lines 128-140: prior entries whose key is not in the source.
CarriedProps(merge, existingSchema, envConfig) ==
  IF merge /\ Has(existingSchema, "properties")
  THEN SelectSeq(existingSchema.properties, LAMBDA e : ~SeqIncludes(PropKeys(envConfig), e[1]))
  ELSE <<>>

\* BuildSchema listing every scanned name in `required`.
BuildSchema_RequiresScanned(envConfig, detectedVars, merge, existingSchema, t) ==
  Let(CarriedProps(merge, existingSchema, envConfig), LAMBDA carried :
    [title |-> "Environment Variables Schema",
     description |-> "Auto-generated schema for environment variables",
     type |-> "object",
     properties |->
       [i \in 1..Len(envConfig) |->
          <<envConfig[i][1],
            BuildDescriptor(envConfig[i][1], envConfig[i][2],
                            ExistingProp(existingSchema, envConfig[i][1]), detectedVars)>>]
         \o carried,
     required |->
       Dedupe(detectedVars
                \o SelectSeq(PropKeys(envConfig),
                             LAMBDA key : IsRequiredKey(key, existingSchema, detectedVars))
                \o SelectSeq(PropKeys(carried),
                             LAMBDA key : ExistingRequired(existingSchema, key))),
     additionalProperties |-> FALSE,
     meta |-> [generated |-> toISOString(t), generator |-> "dotenv-guard", version |-> "1.0.0"]])

\* Lines 66-143: the schema document.
BuildSchema(envConfig, detectedVars, merge, existingSchema, t) ==
  Let(CarriedProps(merge, existingSchema, envConfig), LAMBDA carried :
    [title |-> "Environment Variables Schema",
     description |-> "Auto-generated schema for environment variables",
     type |-> "object",
     properties |->
       [i \in 1..Len(envConfig) |->
          <<envConfig[i][1],
            BuildDescriptor(envConfig[i][1], envConfig[i][2],
                            ExistingProp(existingSchema, envConfig[i][1]), detectedVars)>>]
         \o carried,
     required |->
       Dedupe(SelectSeq(PropKeys(envConfig),
                        LAMBDA key : IsRequiredKey(key, existingSchema, detectedVars))
                \o SelectSeq(PropKeys(carried),
                             LAMBDA key : ExistingRequired(existingSchema, key))),
     additionalProperties |-> FALSE,
     meta |-> [generated |-> toISOString(t), generator |-> "dotenv-guard", version |-> "1.0.0"]])

\* Lines 120, 137: the entries of exampleEnv, in insertion order.
BuildExampleEnv(envConfig, merge, existingSchema) ==
  Let(CarriedProps(merge, existingSchema, envConfig), LAMBDA carried :
    [i \in 1..Len(envConfig) |->
       <<envConfig[i][1],
         generateExampleValue(envConfig[i][1], envConfig[i][2], inferType(envConfig[i][2]))>>]
    \o [i \in 1..Len(carried) |->
       <<carried[i][1],
         IF MetaIsSecret(carried[i][2]) THEN Chars("your-secret-here")
         ELSE Chars("your-") \o toLowerCase(carried[i][1])>>])

\* Lines 183-194: the text of .env.example.
ExampleContent(exampleEnv, t) ==
  Chars("# Example environment variables\n")
    \o Chars("# Copy this file to .env and fill in your actual values\n")
    \o Chars("# Generated by dotenv-guard on ") \o toISOString(t) \o Chars("\n\n")
    \o join([i \in 1..Len(exampleEnv) |-> exampleEnv[i][1] \o <<"=">> \o exampleEnv[i][2]], <<"\n">>)
    \o <<"\n">>

\* Lines 150-181: the content written to the schema file.
SchemaFileContent(merge, schemaFile, schemaJson) ==
  Let(parseSchemaMarkers(schemaFile.content), LAMBDA markers :
  Let(GuardStart \o Text("\n") \o schemaJson \o Text("\n") \o GuardEnd, LAMBDA wrapped :
    IF ~merge THEN schemaJson
    ELSE IF schemaFile.exists /\ markers.found THEN markers.before \o wrapped \o markers.after
    ELSE wrapped))

\* createBackup(schemaPath) at clock reading t; backups maps the number in
\* the backup's file name to the backup's content.
\* createBackup naming every backup alike.
createBackup_OneName(backups, schemaFile, t) ==
  IF ~schemaFile.exists THEN backups
  ELSE [b \in (DOMAIN backups) \cup {0} |-> IF b = 0 THEN schemaFile.content ELSE backups[b]]

createBackup(backups, schemaFile, t) ==
  IF ~schemaFile.exists THEN backups
  ELSE [b \in (DOMAIN backups) \cup {t} |-> IF b = t THEN schemaFile.content ELSE backups[b]]

(***************************************************************************)
(* Inputs the model draws from                                             *)
(***************************************************************************)
MaxEntries == 2
MaxClock == 3
MaxEdits == 1

PORT == Chars("PORT")
API_KEY == Chars("API_KEY")
PUBLIC_KEY_ID == Chars("PUBLIC_KEY_ID")
OLD_TOKEN == Chars("OLD_TOKEN")
EXTRA == Chars("EXTRA")

DistinctKeys(entries) ==
  \A i, j \in 1..Len(entries) : entries[i][1] = entries[j][1] => i = j

\* The results dotenv.parse can give for files of at most n lines over entries.
SourcesOver(entries, n) ==
  {src \in UNION {[1..k -> entries] : k \in 0..n} : DistinctKeys(src)}

\* The .env files of the generation life cycle.
LifecycleEntries ==
  {<<PORT, Chars("3000")>>,
   <<API_KEY, Chars("secret123")>>,
   <<PUBLIC_KEY_ID, Chars("pk_1")>>}

Sources == SourcesOver(LifecycleEntries, MaxEntries)

\* One value of every inferred type, under secret and non-secret keys.
TypedEntries ==
  {<<k, v>> : k \in {API_KEY, PUBLIC_KEY_ID},
              v \in {Chars("secret123"), Chars("true"), Chars("FALSE"), Chars("12345"),
                     Chars("3.14"), Chars("https://k.io/x"), Chars("me@k.io"),
                     Chars("{\"k\": 1}"), Chars("a-value-of-24-characters"), <<>>}}

TypedSources == SourcesOver(TypedEntries, MaxEntries)

\* What the code scan (detectEnvUsage) may report.
DetectedSets == {<<>>, <<PORT, EXTRA>>}

\* Hand-written schema documents.
EditedDescription == Chars("Server port number")

EditedDoc ==
  [properties |-> << <<PORT, [type |-> "integer", description |-> EditedDescription,
                              minimum |-> 3000, maximum |-> 4000]>> >>,
   required |-> <<PORT>>]

OverrideDoc ==
  [properties |-> << <<PORT, [type |-> "string", description |-> EditedDescription]>>,
                     <<OLD_TOKEN, [type |-> "string", meta |-> [isSecret |-> TRUE]]>> >>,
   required |-> <<OLD_TOKEN>>,
   additionalProperties |-> FALSE]

StrictDoc ==
  [properties |-> << <<PORT, [type |-> "integer", minimum |-> 1, maximum |-> 65535,
                              meta |-> [originalType |-> "port", isSecret |-> FALSE]]>>,
                     <<API_KEY, [type |-> "integer", minimum |-> 100,
                                 meta |-> [originalType |-> "integer", isSecret |-> TRUE]]>> >>,
   required |-> <<PORT, EXTRA>>,
   additionalProperties |-> FALSE]

NoPropertiesDoc == [required |-> <<PORT>>]

\* Descriptors that carry a `required` flag of their own.
FlaggedDoc ==
  [properties |-> << <<PORT, [type |-> "integer", description |-> EditedDescription,
                              required |-> FALSE]>>,
                     <<API_KEY, [type |-> "string", description |-> Chars("Service key"),
                                 required |-> TRUE]>> >>,
   required |-> <<>>]

\* A generated descriptor whose `type` was then overridden by hand.
RetypedDoc ==
  [properties |-> << <<PORT, [type |-> "string", description |-> EditedDescription,
                              meta |-> [inferred |-> TRUE, originalType |-> "integer",
                                        isSecret |-> FALSE, detectedInCode |-> FALSE]]>> >>,
   required |-> <<>>,
   additionalProperties |-> FALSE]

Wrapped(before, doc, after) ==
  before \o ShieldStart \o Text("\n") \o JsonText(doc) \o Text("\n") \o ShieldEnd \o after

NotesBefore == Text("# team notes\n")
NotesAfter == Text("\n# keep this line")

\* The schema files a run of generateSchema may find.
InitialSchemaFiles ==
  {NoFile,
   File(JsonText(EditedDoc)),
   File(JsonText(OverrideDoc)),
   File(JsonText(FlaggedDoc)),
   File(JsonText(StrictDoc)),
   File(Wrapped(NotesBefore, EditedDoc, NotesAfter)),
   File(Text("{ invalid json }"))}

\* Live environments handed to validateEnv.
Environments ==
  {<<>>,
   << <<PORT, Chars("3000")>>, <<API_KEY, Chars("12345")>> >>,
   << <<PORT, Chars("abc")>>, <<API_KEY, Chars("hunter2")>> >>,
   << <<PORT, Chars("abc")>>, <<API_KEY, Chars("s3cret")>> >>,
   << <<PORT, Chars("70000")>>, <<API_KEY, Chars("s3cret")>> >>,
   << <<PORT, Chars("3000")>>, <<API_KEY, Chars("7")>>, <<EXTRA, Chars("1")>> >>,
   << <<PORT, <<>> >>, <<EXTRA, Chars("1")>> >>,
   << <<PORT>>, <<API_KEY, Chars("99")>> >>,
   << <<PORT, Chars("3000")>>, <<Chars("_TMP"), Chars("1")>>, <<Chars("PATH"), Chars("/bin")>>,
      <<Chars("CIRCUS"), Chars("x")>>, <<EXTRA, Chars("1")>> >>,
   << <<PORT, Chars("3000.5")>>, <<API_KEY, Chars("123abc")>> >>}

(***************************************************************************)
(* State                                                                   *)
(***************************************************************************)
VARIABLES
  envFile,      \* the source, as dotenv.parse reads it
  codeVars,     \* the names the code scan finds in the source tree
  schemaFile,   \* .env.schema.json
  exampleFile,  \* .env.example
  backups,      \* .env.schema.json.backup.<t>, by t
  now,          \* the clock
  edits,        \* how often the .env file has been rewritten
  genLog,       \* the last generateSchema call: its arguments and outcome
  report,       \* the validateEnv call that has just returned, if any
  hist,         \* what happened to the schema file since it was hand-written
  runs          \* per process: how far its generateSchema call has got

vars ==
  <<envFile, codeVars, schemaFile, exampleFile, backups, now, edits, genLog, report, hist, runs>>

\* The processes that may call generateSchema on the same schema path.
Procs == {"a", "b"}
IdleRun == [pc |-> "idle", replaced |-> {}]

NoGen == [ran |-> FALSE]
NoReport == [ran |-> FALSE]
KeySet(entries) == {entries[i][1] : i \in 1..Len(entries)}
HistOf(file) == [userFile |-> file, merges |-> 0, plain |-> FALSE,
                 kept |-> {e[1] : e \in LifecycleEntries \cup TypedEntries}]

\* The file system before the first command: some .env file, some source
\* tree and possibly a hand-written schema file.
InitWith(sources, scans, schemaFiles) ==
  /\ envFile \in sources
  /\ codeVars \in scans
  /\ schemaFile \in schemaFiles
  /\ exampleFile = NoFile
  /\ backups = <<>>
  /\ now = 0
  /\ edits = 0
  /\ genLog = NoGen
  /\ report = NoReport
  /\ hist = HistOf(schemaFile)
  /\ runs = [p \in Procs |-> IdleRun]

Init == InitWith(Sources, DetectedSets, InitialSchemaFiles)

\* The user saves a different .env file.
WriteEnvFile(src) ==
  /\ src # envFile
  /\ edits < MaxEdits
  /\ now < MaxClock
  /\ envFile' = src
  /\ edits' = edits + 1
  /\ report' = NoReport
  /\ UNCHANGED <<codeVars, schemaFile, exampleFile, backups, now, genLog, hist, runs>>

\* The test on the parsed source, were it `length < 0`.
NoVariablesFound_Never(envConfig) == Len(envConfig) < 0

\* Object.keys(envConfig).length === 0
NoVariablesFound(envConfig) == Len(envConfig) = 0

\* generateSchema({merge}); the run reads the clock, which has advanced by
\* the time of the next run.
GenerateSchema(merge) ==
  /\ now < MaxClock
  /\ now' = now + 1
  /\ report' = NoReport
  /\ UNCHANGED <<envFile, codeVars, edits, runs>>
  /\ Let(loadExistingSchema(merge, schemaFile), LAMBDA existingSchema :
     Let(BuildSchema(envFile, codeVars, merge, existingSchema, now), LAMBDA schema :
     Let(BuildExampleEnv(envFile, merge, existingSchema), LAMBDA exampleEnv :
       IF NoVariablesFound(envFile)
       THEN /\ genLog' = [ran |-> TRUE, threw |-> TRUE, merge |-> merge,
                          error |-> Chars("No environment variables found in .env file")]
            /\ UNCHANGED <<schemaFile, exampleFile, backups, hist>>
       ELSE /\ backups' = IF merge THEN createBackup(backups, schemaFile, now) ELSE backups
            /\ schemaFile' = File(SchemaFileContent(merge, schemaFile, JsonText(schema)))
            /\ exampleFile' = File(ExampleContent(exampleEnv, now))
            /\ genLog' = [ran |-> TRUE, threw |-> FALSE, merge |-> merge,
                          envConfig |-> envFile, schema |-> schema,
                          exampleEnv |-> exampleEnv,
                          streak |-> IF genLog.ran /\ ~genLog.threw /\ genLog.merge /\ merge
                                        /\ genLog.envConfig = envFile
                                     THEN genLog.streak + 1 ELSE 1]
            /\ hist' = [hist EXCEPT !.merges = IF merge THEN @ + 1 ELSE @,
                                    !.plain = @ \/ ~merge,
                                    !.kept = @ \cap KeySet(envFile)])))

\* validateEnv({envVars, ciMode}) against the schema file as it is now.
ValidateEnv(envVars, ciMode) ==
  /\ report' = [ran |-> TRUE, envVars |-> envVars, ciMode |-> ciMode,
                out |-> validateEnv(schemaFile, envVars, ciMode)]
  /\ UNCHANGED <<envFile, codeVars, schemaFile, exampleFile, backups, now, edits, genLog, hist,
                 runs>>

Next ==
  \/ \E src \in Sources : WriteEnvFile(src)
  \/ \E merge \in BOOLEAN : GenerateSchema(merge)

Spec == Init /\ [][Next]_vars

(***************************************************************************)
(* Validation on its own: the schema file is any of the hand-written files *)
(* or a file generateSchema has written, and validateEnv is run on it.     *)
(***************************************************************************)
GeneratedDoc(src, detectedVars) == BuildSchema(src, detectedVars, FALSE, EmptyObject, 0)

\* The file a run of generateSchema writes where no schema file exists.
GeneratedFile(src, detectedVars, merge) ==
  File(SchemaFileContent(merge, NoFile, JsonText(GeneratedDoc(src, detectedVars))))

GeneratedInputs ==
  {<< << <<PORT, Chars("3000")>> >>, <<PORT, EXTRA>>, FALSE >>,
   << << <<PORT, Chars("3000")>>, <<API_KEY, Chars("12345")>> >>, <<>>, FALSE >>,
   << << <<PORT, Chars("3000")>> >>, <<>>, TRUE >>}

ValidateSchemaFiles ==
  {NoFile,
   File(JsonText(EditedDoc)),
   File(JsonText(OverrideDoc)),
   File(JsonText(StrictDoc)),
   File(JsonText(RetypedDoc)),
   File(JsonText(NoPropertiesDoc)),
   File(Wrapped(NotesBefore, StrictDoc, NotesAfter)),
   File(Text("{ invalid json }")),
   File(JsonText(JsonNull))}
    \cup {GeneratedFile(g[1], g[2], g[3]) : g \in GeneratedInputs}

InitValidate == InitWith({<<>>}, {<<>>}, ValidateSchemaFiles)

NextValidate == \E envVars \in Environments, ciMode \in BOOLEAN : ValidateEnv(envVars, ciMode)

SpecValidate == InitValidate /\ [][NextValidate]_vars

(***************************************************************************)
(* Generation over sources with a value of every inferred type.            *)
(***************************************************************************)
InitGenerate == InitWith(TypedSources, {<<>>}, {NoFile, File(JsonText(OverrideDoc))})

NextGenerate == \E merge \in BOOLEAN : GenerateSchema(merge)

SpecGenerate == InitGenerate /\ [][NextGenerate]_vars

(***************************************************************************)
(* Generation over one-line sources whose value is a number-like or        *)
(* boolean-like text, bare or with white space around it (a quoted value   *)
(* keeps its white space in dotenv.parse).                                 *)
(***************************************************************************)
InferCores ==
  {Chars("42"), Chars("-7"), Chars("0"), Chars("3000"), Chars("65535"), Chars("65536"),
   Chars("3.14"), Chars("-0.5"), Chars("true"), Chars("FALSE"), Chars("True"),
   Chars("1e5"), Chars("12abc"), Chars("3."), Chars(".5"), Chars("--1"), Chars("+5"),
   Chars("4 2"), Chars("1.2.3"), Chars("tru"), Chars("truefalse"), Chars("-")}

InferTexts ==
  {pre \o core \o post : pre \in {<<>>, <<" ">>, <<"\t">>},
                         core \in InferCores,
                         post \in {<<>>, <<" ">>, <<"\n">>}}

\* Texts that more than one of inferType's tests accept, and texts of the
\* remaining types.
OverlapTexts ==
  {Chars("http://a@b.co"), Chars("https://k.io/x"), Chars("ftp://k.io"),
   Chars("mailto:me@k.io"), Chars("{\"a\":\"b@c.d\"}"), Chars("[1]"), Chars("{bad}"),
   Chars("me@k.io"), Chars("me@k.i"), Chars("secret123"), <<>>}

InferSources == {<< <<PORT, text>> >> : text \in InferTexts \cup OverlapTexts}

InitInfer == InitWith(InferSources, {<<>>}, {NoFile})

SpecInfer == InitInfer /\ [][NextGenerate]_vars

(***************************************************************************)
(* generateSchema step by step: the call reads the source and the existing *)
(* schema and builds its document (lines 24-143), makes the backup (lines  *)
(* 145-148), writes the schema file (lines 150-181) and writes the example *)
(* file (lines 183-194).  Each process has its own source (envPath); all   *)
(* share the schema path.                                                  *)
(***************************************************************************)
StepSources ==
  {<<>>,
   << <<PORT, Chars("3000")>> >>,
   << <<API_KEY, Chars("secret123")>> >>}

StepSchemaFiles ==
  {NoFile,
   File(JsonText(OverrideDoc)),
   File(Wrapped(NotesBefore, EditedDoc, NotesAfter))}

\* Lines 24-143.
StartRun(p, merge, src) ==
  /\ runs[p].pc = "idle"
  /\ now < MaxClock
  /\ UNCHANGED <<envFile, codeVars, schemaFile, exampleFile, backups, now, edits, report, hist>>
  /\ Let(loadExistingSchema(merge, schemaFile), LAMBDA existingSchema :
       IF NoVariablesFound(src)
       THEN /\ genLog' = [ran |-> TRUE, threw |-> TRUE, merge |-> merge,
                          error |-> Chars("No environment variables found in .env file")]
            /\ UNCHANGED runs
       ELSE /\ runs' = [runs EXCEPT ![p] =
                          [pc |-> "built", merge |-> merge, envConfig |-> src,
                           read |-> schemaFile,
                           schema |-> BuildSchema(src, codeVars, merge, existingSchema, now),
                           exampleEnv |-> BuildExampleEnv(src, merge, existingSchema),
                           replaced |-> runs[p].replaced]]
            /\ UNCHANGED genLog)

\* Lines 145-148.
BackupStep(p) ==
  /\ runs[p].pc = "built"
  /\ backups' = IF runs[p].merge THEN createBackup(backups, schemaFile, now) ELSE backups
  /\ runs' = [runs EXCEPT ![p].pc = "backed"]
  /\ UNCHANGED <<envFile, codeVars, schemaFile, exampleFile, now, edits, genLog, report, hist>>

\* WriteSchemaStep were the document built again from the schema file as it
\* is when the file is written.
WriteSchemaStep_Reload(p) ==
  /\ runs[p].pc = "backed"
  /\ schemaFile' =
       File(SchemaFileContent(runs[p].merge, schemaFile,
              JsonText(BuildSchema(runs[p].envConfig, codeVars, runs[p].merge,
                                   loadExistingSchema(runs[p].merge, schemaFile), now))))
  /\ runs' = [runs EXCEPT ![p].pc = "written",
                          ![p].replaced = IF schemaFile.exists
                                          THEN @ \cup {<<runs[p].merge, schemaFile.content>>}
                                          ELSE @]
  /\ hist' = [hist EXCEPT !.merges = IF runs[p].merge THEN @ + 1 ELSE @,
                          !.plain = @ \/ ~runs[p].merge,
                          !.kept = @ \cap KeySet(runs[p].envConfig)]
  /\ UNCHANGED <<envFile, codeVars, exampleFile, backups, now, edits, genLog, report>>

\* Lines 150-181; `replaced` keeps what the process has overwritten, and
\* in which mode.
WriteSchemaStep(p) ==
  /\ runs[p].pc = "backed"
  /\ schemaFile' = File(SchemaFileContent(runs[p].merge, schemaFile, JsonText(runs[p].schema)))
  /\ runs' = [runs EXCEPT ![p].pc = "written",
                          ![p].replaced = IF schemaFile.exists
                                          THEN @ \cup {<<runs[p].merge, schemaFile.content>>}
                                          ELSE @]
  /\ hist' = [hist EXCEPT !.merges = IF runs[p].merge THEN @ + 1 ELSE @,
                          !.plain = @ \/ ~runs[p].merge,
                          !.kept = @ \cap KeySet(runs[p].envConfig)]
  /\ UNCHANGED <<envFile, codeVars, exampleFile, backups, now, edits, genLog, report>>

\* Lines 183-203; the clock has advanced by the time of the next call.
WriteExampleStep(p) ==
  /\ runs[p].pc = "written"
  /\ exampleFile' = File(ExampleContent(runs[p].exampleEnv, now))
  /\ genLog' = [ran |-> TRUE, threw |-> FALSE, merge |-> runs[p].merge,
                envConfig |-> runs[p].envConfig, schema |-> runs[p].schema,
                exampleEnv |-> runs[p].exampleEnv, streak |-> 1]
  /\ runs' = [runs EXCEPT ![p] = [pc |-> "idle", replaced |-> runs[p].replaced]]
  /\ now' = now + 1
  /\ UNCHANGED <<envFile, codeVars, schemaFile, backups, edits, report, hist>>

InitSteps == InitWith({<<>>}, {<<>>}, StepSchemaFiles)

\* One process, one call at a time.
NextSteps ==
  \/ \E merge \in BOOLEAN, src \in StepSources : StartRun("a", merge, src)
  \/ BackupStep("a")
  \/ WriteSchemaStep("a")
  \/ WriteExampleStep("a")

SpecSteps == InitSteps /\ [][NextSteps]_vars

\* Two processes that merge their own sources into the one schema file;
\* their calls may overlap.
RaceSource(p) ==
  IF p = "a" THEN << <<PORT, Chars("3000")>> >> ELSE << <<API_KEY, Chars("secret123")>> >>

RaceSchemaFiles ==
  {File(JsonText(OverrideDoc)),
   File(Wrapped(NotesBefore, EditedDoc, NotesAfter))}

InitRace == InitWith({<<>>}, {<<>>}, RaceSchemaFiles)

NextRace ==
  \E p \in Procs :
    \/ StartRun(p, TRUE, RaceSource(p))
    \/ BackupStep(p)
    \/ WriteSchemaStep(p)
    \/ WriteExampleStep(p)

SpecRace == InitRace /\ [][NextRace]_vars

(***************************************************************************)
(* Properties of validateEnv                                               *)
(***************************************************************************)
\* The document whose JSON text a file holds.
HasFileDoc(file) == file.exists /\ \E i \in 1..Len(file.content) : Len(file.content[i]) = 2
FileDoc(file) ==
  file.content[CHOOSE i \in 1..Len(file.content) : Len(file.content[i]) = 2][2]

Returned == report.ran /\ ~report.out.threw
RequiredOf(doc) == IF "required" \in DOMAIN doc THEN doc.required ELSE <<>>

\* The environment has no entry for name, or one without a value, or an empty one.
Lacks(envVars, name) ==
  \A i \in 1..Len(envVars) :
    envVars[i][1] = name => (Len(envVars[i]) = 1 \/ envVars[i][2] = <<>>)

HasValue(envVars, name) ==
  \E i \in 1..Len(envVars) :
    envVars[i][1] = name /\ Len(envVars[i]) = 2 /\ envVars[i][2] # <<>>

ValueOf(envVars, name) == envVars[CHOOSE i \in 1..Len(envVars) : envVars[i][1] = name][2]

MissingLine(name) == Chars("Missing required environment variable: ") \o name
InSeq(seq, x) == \E i \in 1..Len(seq) : seq[i] = x
LinesFor(errors, name) == {e \in 1..Len(errors) : startsWith(errors[e], name \o <<"=">>)}

\* C1: every name in `required` that the environment lacks (absent, empty
\* or undefined), whether or not it is a key of `properties`, makes the
\* report unsuccessful and puts 'Missing required environment variable:
\* <name>' into errors, in CI and non-CI mode.
C1_MissingRequiredIsReported ==
  Returned =>
    \A i \in 1..Len(RequiredOf(FileDoc(schemaFile))) :
      LET name == RequiredOf(FileDoc(schemaFile))[i]
      IN Lacks(report.envVars, name) =>
           /\ report.out.success = FALSE
           /\ InSeq(report.out.errors, MissingLine(name))

\* A report for an environment in which a required name is present but
\* empty, and another required name is not a key of `properties`.
C1_Witness ==
  /\ Returned
  /\ \E i \in 1..Len(report.envVars) :
       /\ report.envVars[i] = <<PORT, <<>> >>
       /\ InSeq(RequiredOf(FileDoc(schemaFile)), PORT)
  /\ InSeq(report.out.errors, MissingLine(PORT))
  /\ InSeq(RequiredOf(FileDoc(schemaFile)), EXTRA)
  /\ ~InSeq(PropKeys(FileDoc(schemaFile).properties), EXTRA)

\* Conversion to the re-derived type succeeds and the converted value
\* satisfies the descriptor.
PassesBoth(name, value, propSchema) ==
  /\ convertValue(value, ConversionType(propSchema)).ok
  /\ createZodSchema(propSchema, name, convertValue(value, ConversionType(propSchema)).v).ok

\* C2: a key of `properties` with a non-empty live value whose conversion
\* fails, or whose converted value violates the descriptor, gets exactly
\* one error line starting with '<KEY>=' and is not counted; validatedCount
\* counts exactly the keys that pass both.
C2_FailedValueIsReportedOnce ==
  Returned =>
    LET props == FileDoc(schemaFile).properties
        env == report.envVars
        Fails(i) == /\ HasValue(env, props[i][1])
                    /\ ~PassesBoth(props[i][1], ValueOf(env, props[i][1]), props[i][2])
        Passes(i) == /\ HasValue(env, props[i][1])
                     /\ PassesBoth(props[i][1], ValueOf(env, props[i][1]), props[i][2])
    IN /\ \A i \in 1..Len(props) :
            Fails(i) => Cardinality(LinesFor(report.out.errors, props[i][1])) = 1
       /\ report.out.validatedCount = Cardinality({i \in 1..Len(props) : Passes(i)})

IsSecretDescriptor(propSchema) ==
  /\ "meta" \in DOMAIN propSchema
  /\ "isSecret" \in DOMAIN propSchema.meta
  /\ propSchema.meta.isSecret = TRUE

\* env2 differs from env only in values of secret-classified keys, and
\* each changed value fails the check that the original value fails.
SecretVariant(props, env, env2) ==
  /\ Len(env) = Len(env2)
  /\ \A j \in 1..Len(env) :
       env[j] # env2[j] =>
         /\ env[j][1] = env2[j][1]
         /\ Len(env[j]) = 2 /\ Len(env2[j]) = 2
         /\ env[j][2] # <<>> /\ env2[j][2] # <<>>
         /\ \E i \in 1..Len(props) :
              /\ props[i][1] = env[j][1]
              /\ IsSecretDescriptor(props[i][2])
              /\ ~CheckValue(props[i][1], env[j][2], props[i][2]).ok
              /\ CheckValue(props[i][1], env[j][2], props[i][2])
                   = CheckValue(props[i][1], env2[j][2], props[i][2])

\* C3: the error line of a secret-classified key reads
\* 'KEY=[REDACTED]: <message>', and the errors and warnings of the report
\* are the same for any two values of a secret key that fail the same check.
C3_SecretValuesAreRedacted ==
  Returned =>
    LET props == FileDoc(schemaFile).properties
        errors == report.out.errors
    IN /\ \A i \in 1..Len(props) :
            IsSecretDescriptor(props[i][2]) =>
              \A e \in LinesFor(errors, props[i][1]) :
                startsWith(errors[e], props[i][1] \o Chars("=[REDACTED]: "))
       /\ \A env2 \in Environments :
            SecretVariant(props, report.envVars, env2) =>
              /\ validateEnv(schemaFile, env2, report.ciMode).errors = errors
              /\ validateEnv(schemaFile, env2, report.ciMode).warnings = report.out.warnings

\* A report with a redacted line for API_KEY, for which another
\* environment with a different failing API_KEY value exists.
C3_Witness ==
  /\ Returned
  /\ \E e \in 1..Len(report.out.errors) :
       startsWith(report.out.errors[e], API_KEY \o Chars("=[REDACTED]: "))
  /\ \E env2 \in Environments :
       /\ env2 # report.envVars
       /\ SecretVariant(FileDoc(schemaFile).properties, report.envVars, env2)

\* C5: success is true exactly when errors is empty, whatever warnings holds.
C5_SuccessIffNoErrors ==
  Returned => (report.out.success <=> report.out.errors = <<>>)

\* A successful report that carries warnings.
C5_Witness ==
  /\ Returned
  /\ report.out.success
  /\ report.out.warnings # <<>>

(***************************************************************************)
(* Properties of generateSchema                                            *)
(***************************************************************************)
Generated == genLog.ran /\ ~genLog.threw

\* C4 as claimed: the example document never contains the (non-empty) raw
\* value of a source key that isSecretKey classifies as secret.
C4_ExampleNeverContainsSecretValue ==
  Generated =>
    \A i \in 1..Len(genLog.envConfig) :
      (isSecretKey(genLog.envConfig[i][1]) /\ genLog.envConfig[i][2] # <<>>)
        => ~includes(exampleFile.content, genLog.envConfig[i][2])

PlaceholderOf ==
  [string |-> Chars("your-secret-here"),
   integer |-> Chars("***"),
   number |-> Chars("***"),
   port |-> Chars("***"),
   boolean |-> Chars("true"),
   url |-> Chars("https://your-secret-url.com"),
   email |-> Chars("your-email@example.com"),
   json |-> Chars("{\"secret\": \"value\"}")]

\* C4, amended: the value written to the example document for a source key
\* that isSecretKey classifies as secret is the fixed placeholder of the
\* value's inferred type, whatever the raw value is.
C4_SecretExampleIsTypePlaceholder ==
  Generated =>
    \A i \in 1..Len(genLog.envConfig) :
      LET key == genLog.envConfig[i][1]
          placeholder == PlaceholderOf[inferType(genLog.envConfig[i][2])]
      IN isSecretKey(key) =>
           /\ genLog.exampleEnv[i] = <<key, placeholder>>
           /\ includes(exampleFile.content, <<"\n">> \o key \o <<"=">> \o placeholder \o <<"\n">>)

\* A generated example document for a secret key whose raw value 'true' is
\* also what the placeholder of its type reads.
C4_Witness ==
  /\ Generated
  /\ \E i \in 1..Len(genLog.envConfig) :
       /\ genLog.envConfig[i] = <<API_KEY, Chars("true")>>
       /\ includes(exampleFile.content, API_KEY \o Chars("=true\n"))

\* C6 as claimed: a name containing KEY anywhere (any letter case) is
\* classified as secret, so its generated descriptor has isSecret = true.
C6_KeyAnywhereIsSecret ==
  Generated =>
    \A i \in 1..Len(genLog.envConfig) :
      includes(toLowerCase(genLog.envConfig[i][1]), Chars("key"))
        => /\ isSecretKey(genLog.envConfig[i][1])
           /\ GetProp(genLog.schema.properties, genLog.envConfig[i][1]).meta.isSecret = TRUE

\* The schema file is as a merge-mode run has just written it.
MergeWritten == Generated /\ genLog.merge

\* C7 as claimed: the file a merge-mode run has written is wrapped in the
\* marker lines loadSchema looks for, validateEnv loads it, and the loaded
\* schema has the properties and required that the run produced.
C7_MergeWrittenSchemaLoads ==
  MergeWritten =>
    /\ includes(schemaFile.content, Text("// dotenv-shield:start\n"))
    /\ includes(schemaFile.content, Text("\n// dotenv-shield:end"))
    /\ ~validateEnv(schemaFile, <<>>, FALSE).threw
    /\ loadSchema(schemaFile).schema.properties = genLog.schema.properties
    /\ loadSchema(schemaFile).schema.required = genLog.schema.required

\* C8 as claimed: after merge-mode runs on a file that had the marker
\* lines, the text before the start marker and after the end marker is
\* what it was before the first run.
C8_TextOutsideMarkersIsKept ==
  (/\ hist.userFile = File(Wrapped(NotesBefore, EditedDoc, NotesAfter))
   /\ hist.merges >= 1
   /\ ~hist.plain)
    => /\ startsWith(schemaFile.content, NotesBefore)
       /\ endsWith(schemaFile.content, NotesAfter)

StripGenerated(doc) == [doc EXCEPT !.meta.generated = <<>>]

C10_ManualEditsSurviveMerges ==
  (HasFileDoc(hist.userFile) /\ hist.merges >= 1 /\ ~hist.plain) =>
    \A i \in 1..Len(FileDoc(hist.userFile).properties) :
      LET key == FileDoc(hist.userFile).properties[i][1]
          edited == FileDoc(hist.userFile).properties[i][2]
      IN key \in hist.kept =>
           /\ HasFileDoc(schemaFile)
           /\ \E j \in 1..Len(FileDoc(schemaFile).properties) :
                /\ FileDoc(schemaFile).properties[j][1] = key
                /\ "description" \in DOMAIN edited =>
                     FileDoc(schemaFile).properties[j][2].description = edited.description
                /\ "type" \in DOMAIN edited =>
                     FileDoc(schemaFile).properties[j][2].type = edited.type

(***************************************************************************)
(* Properties of merge-mode runs, stated over the step of one run          *)
(***************************************************************************)
\* The step is a run of generateSchema({merge: true}) that wrote its files.
MergeRunStep == now' # now /\ genLog'.ran /\ ~genLog'.threw /\ genLog'.merge

\* The descriptor of key in the document a file holds.
DocHasKey(file, key) ==
  /\ HasFileDoc(file)
  /\ "properties" \in DOMAIN FileDoc(file)
  /\ \E j \in 1..Len(FileDoc(file).properties) : FileDoc(file).properties[j][1] = key
DocProp(file, key) ==
  FileDoc(file).properties[CHOOSE j \in 1..Len(FileDoc(file).properties) :
                             FileDoc(file).properties[j][1] = key][2]

\* C11 as claimed: when the schema file holds a minimum and a maximum set
\* by hand on a key that is still in the source, the key's descriptor after
\* a merge-mode run has the same minimum and maximum.
C11_MergeKeepsCustomConstraints ==
  [][(MergeRunStep /\ HasFileDoc(schemaFile) /\ "properties" \in DOMAIN FileDoc(schemaFile)) =>
       \A key \in KeySet(envFile) :
         (/\ DocHasKey(schemaFile, key)
          /\ {"minimum", "maximum"} \subseteq DOMAIN DocProp(schemaFile, key))
           => /\ DocHasKey(schemaFile', key)
              /\ {"minimum", "maximum"} \subseteq DOMAIN DocProp(schemaFile', key)
              /\ DocProp(schemaFile', key).minimum = DocProp(schemaFile, key).minimum
              /\ DocProp(schemaFile', key).maximum = DocProp(schemaFile, key).maximum]_vars

(***************************************************************************)
(* Properties of type inference and constraint derivation                  *)
(***************************************************************************)
\* The text is one or more digits and nothing else.
OnlyDigits(value) == value # <<>> /\ \A j \in 1..Len(value) : value[j] \in Digits

\* The text is an optional minus sign and one or more digits.
WholeNumberText(value) ==
  \/ OnlyDigits(value)
  \/ (Len(value) > 1 /\ value[1] = "-" /\ OnlyDigits(Tail(value)))

\* C12 as claimed: a source value of digits only whose value lies in
\* 1..65535 gets type integer with minimum 1 and maximum 65535; any other
\* non-negative integer value gets minimum 0 and no maximum.
C12_PortValuesGetPortRange ==
  (Generated /\ ~genLog.merge) =>
    \A i \in 1..Len(genLog.envConfig) :
      LET value == genLog.envConfig[i][2]
          descriptor == genLog.schema.properties[i][2]
      IN /\ (OnlyDigits(value) /\ DigitsToNat(value) \in 1..65535)
              => /\ descriptor.type = "integer"
                 /\ {"minimum", "maximum"} \subseteq DOMAIN descriptor
                 /\ descriptor.minimum = 1
                 /\ descriptor.maximum = 65535
         /\ (OnlyDigits(value) /\ DigitsToNat(value) \notin 1..65535)
              => /\ descriptor.type = "integer"
                 /\ "minimum" \in DOMAIN descriptor
                 /\ descriptor.minimum = 0
                 /\ "maximum" \notin DOMAIN descriptor

\* /^-?\d+\.\d+$/ read as: a whole number, a dot, one or more digits.
DecimalText(value) ==
  \E d \in 2..(Len(value) - 1) :
    /\ value[d] = "."
    /\ WholeNumberText(SubSeq(value, 1, d - 1))
    /\ OnlyDigits(SubSeq(value, d + 1, Len(value)))

\* 'true' or 'false' in any letter case.
BooleanWord(value) ==
  \E word \in {Chars("true"), Chars("false")} :
    /\ Len(value) = Len(word)
    /\ \A j \in 1..Len(word) : toLowerCaseChar(value[j]) = word[j]

\* C13: a value whose trimmed form is a whole number is inferred as
\* integer, one whose trimmed form is a decimal number as number, and one
\* whose trimmed form is true or false in any letter case as boolean.
C13_TrimmedFormDecidesType ==
  Generated =>
    \A i \in 1..Len(genLog.envConfig) :
      LET trimmed == trim(genLog.envConfig[i][2])
          inferred == genLog.schema.properties[i][2].meta.originalType
      IN /\ WholeNumberText(trimmed) => inferred = "integer"
         /\ DecimalText(trimmed) => inferred = "number"
         /\ BooleanWord(trimmed) => inferred = "boolean"

\* A run over a negative whole number with white space on both sides.
C13_Witness ==
  /\ Generated
  /\ genLog.envConfig = << <<PORT, <<" ", "-", "7", "\n">> >> >>
  /\ genLog.schema.properties[1][2].meta.originalType = "integer"

\* The structural type each inferred type is written as.
CanonicalType ==
  [boolean |-> "boolean", integer |-> "integer", port |-> "integer", number |-> "number",
   json |-> ObjectOrArray, url |-> "string", email |-> "string", string |-> "string"]

\* C14 as claimed: every descriptor of a document generateSchema has
\* written, overlaid and carried-forward ones included, has an originalType
\* and the type that originalType is written as.
C14_TypeFollowsOriginalType ==
  Generated =>
    \A i \in 1..Len(genLog.schema.properties) :
      LET descriptor == genLog.schema.properties[i][2]
      IN /\ "meta" \in DOMAIN descriptor
         /\ "originalType" \in DOMAIN descriptor.meta
         /\ descriptor.type = CanonicalType[descriptor.meta.originalType]

(***************************************************************************)
(* Failures of generateSchema and validateEnv                              *)
(***************************************************************************)
\* C15: a run of generateSchema on a source with no entries fails with a
\* message containing 'No environment variables found' and leaves the
\* schema file, the example file and the backups as they were, with and
\* without merge.
C15_EmptySourceWritesNothing ==
  [][(now' # now /\ Len(envFile) = 0) =>
       /\ genLog'.ran
       /\ genLog'.threw
       /\ includes(genLog'.error, Chars("No environment variables found"))
       /\ UNCHANGED <<schemaFile, exampleFile, backups>>]_vars

\* A merge-mode run on an empty source has failed where a schema file
\* exists, which a run that went on would have backed up.
C15_Witness ==
  /\ genLog.ran
  /\ genLog.threw
  /\ genLog.merge
  /\ envFile = <<>>
  /\ schemaFile.exists
  /\ backups = <<>>

\* The file holds the text of one JSON document, alone or between the
\* marker lines loadSchema strips.
HoldsJson(file) ==
  /\ file.exists
  /\ \E i \in 1..Len(file.content) :
       /\ Len(file.content[i]) = 2
       /\ \/ \A j \in (1..Len(file.content)) \ {i} : file.content[j][1] \in Whitespace
          \/ /\ endsWith(SubSeq(file.content, 1, i - 1), ShieldStart \o Text("\n"))
             /\ startsWith(SubSeq(file.content, i + 1, Len(file.content)),
                           Text("\n") \o ShieldEnd)

\* C16 as claimed: validateEnv fails with 'Schema file not found' when the
\* file is missing, with 'Invalid JSON in schema file' when its content is
\* not JSON, and with an invalid-schema error when the parsed schema has no
\* properties; a failure carries no report.
C16_FatalErrorsAreNamed ==
  report.ran =>
    /\ ~schemaFile.exists
         => report.out.threw /\ includes(report.out.error, Chars("Schema file not found"))
    /\ (schemaFile.exists /\ ~HoldsJson(schemaFile))
         => report.out.threw /\ includes(report.out.error, Chars("Invalid JSON in schema file"))
    /\ (HoldsJson(schemaFile) /\ "properties" \notin DOMAIN FileDoc(schemaFile))
         => report.out.threw /\ includes(report.out.error, Chars("Invalid schema"))
    /\ report.out.threw => DOMAIN report.out = {"threw", "error"}

(***************************************************************************)
(* Warnings and CI mode                                                    *)
(***************************************************************************)
\* The ambient names and name prefixes that are never reported.
AllowList ==
  {"PATH", "HOME", "USER", "SHELL", "TERM", "PWD", "OLDPWD", "NODE_ENV", "NODE_PATH",
   "NODE_OPTIONS", "npm_package_name", "npm_package_version", "npm_config_", "CI",
   "GITHUB_", "TRAVIS_", "CIRCLE_", "JENKINS_"}

OnAllowList(name) ==
  \E entry \in AllowList :
    Len(name) >= Len(entry) /\ SubSeq(name, 1, Len(entry)) = Chars(entry)

Declared(doc, name) == \E i \in 1..Len(doc.properties) : doc.properties[i][1] = name

NoticeFor(name) ==
  Chars("Unexpected environment variable: ") \o name \o Chars(" (not defined in schema)")

\* Whether validateEnv is to report the live name as undeclared.
IsReportable(doc, ciMode, name) ==
  /\ "additionalProperties" \in DOMAIN doc
  /\ doc.additionalProperties = FALSE
  /\ ciMode
  /\ ~Declared(doc, name)
  /\ name[1] # "_"
  /\ ~OnAllowList(name)

\* C17: `warnings` holds undeclared-variable notices only; the notice for
\* a live name is there exactly when additionalProperties is false, CI mode
\* is on, and the name is undeclared, has no leading underscore and is not
\* on the allow-list.  Without CI mode `warnings` is empty, and no failed
\* value is recorded as a warning.
C17_WarningsAreUndeclaredNotices ==
  Returned =>
    LET doc == FileDoc(schemaFile)
        live == {report.envVars[i][1] : i \in 1..Len(report.envVars)}
        warnings == report.out.warnings
    IN /\ \A w \in 1..Len(warnings) : \E name \in live : warnings[w] = NoticeFor(name)
       /\ \A name \in live :
            InSeq(warnings, NoticeFor(name)) <=> IsReportable(doc, report.ciMode, name)
       /\ ~report.ciMode => warnings = <<>>
       /\ \A w \in 1..Len(warnings), i \in 1..Len(doc.properties) :
            ~startsWith(warnings[w], doc.properties[i][1] \o <<"=">>)

\* A CI run over an environment with an underscore name, allow-listed
\* names and one reportable name, in which a declared value also failed.
C17_Witness ==
  /\ Returned
  /\ report.ciMode
  /\ report.out.warnings = <<NoticeFor(EXTRA)>>
  /\ {Chars("_TMP"), Chars("PATH"), Chars("CIRCUS")}
       \subseteq {report.envVars[i][1] : i \in 1..Len(report.envVars)}
  /\ report.out.errors # <<>>

\* C18: when validateEnv runs in CI mode and the live environment holds a
\* variable that the schema does not define (a reportable one, under a
\* schema that closes additionalProperties), the run fails: success is
\* false.
C18_UndeclaredVariableFailsCI ==
  (/\ Returned
   /\ \E i \in 1..Len(report.envVars) :
        IsReportable(FileDoc(schemaFile), report.ciMode, report.envVars[i][1]))
    => ~report.out.success

(***************************************************************************)
(* Integer values                                                          *)
(***************************************************************************)
\* The descriptor is of type integer and converts as an integer.
IsIntegerDescriptor(descriptor) ==
  /\ "type" \in DOMAIN descriptor
  /\ descriptor.type = "integer"
  /\ \/ "meta" \notin DOMAIN descriptor
     \/ "originalType" \notin DOMAIN descriptor.meta
     \/ descriptor.meta.originalType = "integer"

\* C19: a live value that is not a whole number (such as '3000.5' or
\* '123abc') never validates against an integer-typed descriptor: its key
\* gets an error line and the report is unsuccessful.
C19_NonWholeValueFailsInteger ==
  Returned =>
    \A i \in 1..Len(FileDoc(schemaFile).properties) :
      LET name == FileDoc(schemaFile).properties[i][1]
          descriptor == FileDoc(schemaFile).properties[i][2]
      IN (/\ IsIntegerDescriptor(descriptor)
          /\ HasValue(report.envVars, name)
          /\ ~WholeNumberText(trim(ValueOf(report.envVars, name))))
           => /\ LinesFor(report.out.errors, name) # {}
              /\ ~report.out.success

(***************************************************************************)
(* Keys carried forward by a merge-mode run                                *)
(***************************************************************************)
\* The example line a carried key gets.
CarriedExampleLine(key, descriptor) ==
  key \o <<"=">>
      \o (IF "meta" \in DOMAIN descriptor /\ "isSecret" \in DOMAIN descriptor.meta
             /\ descriptor.meta.isSecret = TRUE
          THEN Chars("your-secret-here")
          ELSE Chars("your-") \o toLowerCase(key))
      \o <<"\n">>

\* C20: after a merge-mode run, every key of the prior schema's
\* `properties` that the source does not have is in the output schema with
\* a descriptor equal to the prior one, is in the output `required` exactly
\* when it was in the prior `required`, and has the example line
\* 'your-secret-here' (secret) or 'your-<lowercased-key>'.
C20_AbsentKeysAreCarried ==
  [][(MergeRunStep /\ HasFileDoc(schemaFile) /\ "properties" \in DOMAIN FileDoc(schemaFile)) =>
       \A j \in 1..Len(FileDoc(schemaFile).properties) :
         LET key == FileDoc(schemaFile).properties[j][1]
             prior == FileDoc(schemaFile).properties[j][2]
         IN key \notin KeySet(envFile) =>
              /\ DocHasKey(schemaFile', key)
              /\ DocProp(schemaFile', key) = prior
              /\ InSeq(RequiredOf(FileDoc(schemaFile')), key)
                   <=> InSeq(RequiredOf(FileDoc(schemaFile)), key)
              /\ includes(exampleFile'.content, CarriedExampleLine(key, prior))]_vars

(***************************************************************************)
(* Properties of the `required` list and of regenerated descriptors        *)
(***************************************************************************)
\* The step is a run of generateSchema that wrote its files.
RunStep == now' # now /\ genLog'.ran /\ ~genLog'.threw

NoDuplicates(seq) == \A i, j \in 1..Len(seq) : seq[i] = seq[j] => i = j

\* The name is in the `required` list of the document the file holds.
FileRequires(file, name) ==
  /\ HasFileDoc(file)
  /\ InSeq(RequiredOf(FileDoc(file)), name)

\* C21 as claimed: a source key is in the generated `required` exactly when
\* the code scan found it or, in merge mode, the prior schema's `required`
\* had it; a scanned source key is always listed; `required` has no
\* duplicates.
C21_RequiredIffScannedOrPriorRequired ==
  [][RunStep =>
       /\ \A key \in KeySet(envFile) :
            InSeq(genLog'.schema.required, key)
              <=> \/ InSeq(codeVars, key)
                  \/ genLog'.merge /\ FileRequires(schemaFile, key)
       /\ NoDuplicates(genLog'.schema.required)]_vars

\* The source value of a key.
SourceValue(envConfig, key) ==
  envConfig[CHOOSE i \in 1..Len(envConfig) : envConfig[i][1] = key][2]

\* C22 as claimed: when a merge-mode run regenerates a key the prior schema
\* had, the descriptor's _meta.originalType, _meta.isSecret and
\* _meta.detectedInCode are the values computed from the current source
\* value and scan, and `type` is the fresh type unless the prior descriptor
\* set `type`.
C22_FreshMetaWinsOverPrior ==
  [][MergeRunStep =>
       \A key \in KeySet(envFile) :
         DocHasKey(schemaFile, key) =>
           LET prior == DocProp(schemaFile, key)
               fresh == inferType(SourceValue(envFile, key))
               written == GetProp(genLog'.schema.properties, key)
           IN /\ written.meta.originalType = fresh
              /\ written.meta.isSecret = isSecretKey(key)
              /\ written.meta.detectedInCode = InSeq(codeVars, key)
              /\ written.type = IF "type" \in DOMAIN prior THEN prior.type
                                ELSE getJsonSchemaType(fresh)]_vars

(***************************************************************************)
(* Properties of the steps of a generateSchema call                        *)
(***************************************************************************)
HasBackup(content) == \E b \in DOMAIN backups : backups[b] = content

\* C23: a merge-mode call that finds a schema file has a backup of the
\* file's content before it writes the file, and every content a merge-mode
\* call has overwritten stays in some backup from then on; a call without
\* merge writes the bare document (no marker lines) as the whole file and
\* creates no backup.
C23_BackupPrecedesOverwrite ==
  /\ [](\A p \in Procs :
          (runs[p].pc = "backed" /\ runs[p].merge /\ schemaFile.exists)
            => HasBackup(schemaFile.content))
  /\ [](\A p \in Procs : \A r \in runs[p].replaced : r[1] => HasBackup(r[2]))
  /\ [][\A p \in Procs :
          (runs[p].pc # "idle" /\ ~runs[p].merge) =>
            /\ backups' = backups
            /\ runs'[p].pc = "written" =>
                 /\ schemaFile'.content = JsonText(runs[p].schema)
                 /\ ~includes(schemaFile'.content, Chars("// dotenv-"))]_vars

\* A second merge-mode call has just overwritten the file the first one
\* wrote: both overwritten contents are in backups.
C23_Witness ==
  /\ runs["a"].pc = "written"
  /\ runs["a"].merge
  /\ Cardinality({r \in runs["a"].replaced : r[1]}) = 2
  /\ \A r \in runs["a"].replaced : HasBackup(r[2])
  /\ Cardinality(DOMAIN backups) = 2

\* The file with the generation timestamp of its document blanked.
Untimed(file) ==
  [i \in 1..Len(file.content) |->
     IF Len(file.content[i]) = 2
     THEN <<"json", StripGenerated(file.content[i][2])>>
     ELSE file.content[i]]

\* The schema file after a whole merge-mode call of process p on the file.
AfterCall(file, p, t) ==
  File(SchemaFileContent(TRUE, file,
         JsonText(BuildSchema(RaceSource(p), codeVars, TRUE,
                              loadExistingSchema(TRUE, file), t))))

\* The schema file after the calls of p and then q, one after the other,
\* on the file the user wrote.
Serial(p, q) == AfterCall(AfterCall(hist.userFile, p, 0), q, 1)

\* C24: merge-mode calls of two processes on one schema path do not
\* exclude each other.  What a call writes is the document it built from
\* the schema file it read at its start, whatever the other process has
\* written since: the other call's update is lost.
C24_WriteIgnoresInterveningWrite ==
  [][\A p \in Procs :
       (runs[p].pc = "backed" /\ runs'[p].pc = "written") =>
         /\ HasFileDoc(schemaFile')
         /\ FileDoc(schemaFile') = runs[p].schema
         /\ StripGenerated(runs[p].schema)
              = StripGenerated(BuildSchema(runs[p].envConfig, codeVars, runs[p].merge,
                                           loadExistingSchema(runs[p].merge, runs[p].read),
                                           0))]_vars

\* Both processes read the user's file before either wrote; process "b"
\* has just written last, and the file differs from the result of both
\* serial orders of the two calls.
C24_Witness ==
  /\ runs["b"].pc = "written"
  /\ runs["b"].read = hist.userFile
  /\ runs["a"].pc = "written"
  /\ runs["a"].read = hist.userFile
  /\ hist.merges = 2
  /\ Untimed(schemaFile) # Untimed(Serial("a", "b"))
  /\ Untimed(schemaFile) # Untimed(Serial("b", "a"))

(***************************************************************************)
(* Properties of inferType, generateExampleValue and convertValue          *)
(***************************************************************************)
InferredTypes == {"string", "boolean", "integer", "number", "url", "json", "email"}

HttpLike(value) ==
  \E prefix \in {Chars("http://"), Chars("https://"), Chars("ftp://")} :
    /\ Len(value) >= Len(prefix)
    /\ SubSeq(value, 1, Len(prefix)) = prefix

Bracketed(value) ==
  /\ value # <<>>
  /\ <<value[1], value[Len(value)]>> \in {<<"{", "}">>, <<"[", "]">>}

\* The first test, in the order boolean, integer, number, URL, JSON, email,
\* that accepts the value; string when none does.
FirstMatch(value) ==
  IF value = <<>> THEN "string"
  ELSE IF BooleanWord(trim(value)) THEN "boolean"
  ELSE IF WholeNumberText(trim(value)) THEN "integer"
  ELSE IF DecimalText(trim(value)) THEN "number"
  ELSE IF IsValidURL(value) /\ HttpLike(value) THEN "url"
  ELSE IF Bracketed(value) /\ JSONparse(value).ok THEN "json"
  ELSE IF IsEmailText(value) THEN "email"
  ELSE "string"

C26_NonSecretExampleIsTheValue ==
  Generated =>
    \A i \in 1..Len(genLog.envConfig) :
      LET key == genLog.envConfig[i][1]
          value == genLog.envConfig[i][2]
          rendered == IF inferType(value) = "json"
                      THEN jsonStringify(JSONparse(value).v, 0)
                      ELSE value
      IN ~isSecretKey(key) =>
           /\ genLog.exampleEnv[i] = <<key, rendered>>
           /\ includes(exampleFile.content, key \o <<"=">> \o rendered \o <<"\n">>)

\* String(x) of a converted value that is a string or a boolean.
StringForm(val) ==
  IF val.t = "boolean" THEN (IF val.b THEN Chars("true") ELSE Chars("false")) ELSE val.s

\* C27: for a value whose inferred type is string, url, email or boolean,
\* convertValue to that type does not fail, and the string form of what it
\* returns is inferred as the same type again.
C27_ConvertThenInferKeepsType ==
  Generated =>
    \A i \in 1..Len(genLog.envConfig) :
      LET value == genLog.envConfig[i][2]
          inferred == genLog.schema.properties[i][2].meta.originalType
      IN inferred \in {"string", "url", "email", "boolean"} =>
           /\ convertValue(value, inferred).ok
           /\ inferType(StringForm(convertValue(value, inferred).v)) = inferred

\* A run over an upper-case boolean between white space: it converts to the
\* boolean false, whose string form is a boolean again.
C27_Witness ==
  /\ Generated
  /\ genLog.envConfig = << <<PORT, <<" ", "F", "A", "L", "S", "E", "\n">> >> >>
  /\ genLog.schema.properties[1][2].meta.originalType = "boolean"
  /\ StringForm(convertValue(genLog.envConfig[1][2], "boolean").v) = Chars("false")

(***************************************************************************)
(* Accounting of a validation report                                       *)
(***************************************************************************)
\* C28: validateEnv goes through all of `required` and `properties`
\* whatever fails.  totalVariables is the number of keys of `properties`;
\* `errors` has one entry per required name that is absent or empty and
\* one per key of `properties` whose non-empty value was rejected;
\* validatedCount, the rejected keys and the keys without a value add up
\* to totalVariables.
C28_ReportAccountsForEveryKey ==
  Returned =>
    LET doc == FileDoc(schemaFile)
        props == doc.properties
        env == report.envVars
        missing == {i \in 1..Len(RequiredOf(doc)) : Lacks(env, RequiredOf(doc)[i])}
        unset == {i \in 1..Len(props) : Lacks(env, props[i][1])}
        failed == {i \in 1..Len(props) :
                     /\ HasValue(env, props[i][1])
                     /\ ~CheckValue(props[i][1], ValueOf(env, props[i][1]), props[i][2]).ok}
    IN /\ report.out.totalVariables = Len(props)
       /\ Len(report.out.errors) = Cardinality(missing) + Cardinality(failed)
       /\ \A i \in failed : Cardinality(LinesFor(report.out.errors, props[i][1])) = 1
       /\ \A i \in missing : InSeq(report.out.errors, MissingLine(RequiredOf(doc)[i]))
       /\ report.out.validatedCount + Cardinality(failed) + Cardinality(unset)
            = report.out.totalVariables

\* A report with a missing required name and a rejected value after it:
\* the run went on after the first failure.
C28_Witness ==
  /\ Returned
  /\ InSeq(report.out.errors, MissingLine(EXTRA))
  /\ LinesFor(report.out.errors, PORT) # {}
  /\ Len(report.out.errors) >= 2
  /\ report.out.totalVariables = 2

(***************************************************************************)
(* Generation and validation together                                      *)
(***************************************************************************)
\* C29 as claimed: the pairs of a non-empty source validate against the
\* schema generated from that source without merge: success is true, there
\* is no error, and validatedCount is the number of source keys with a
\* non-empty value, whatever the inferred types.
C29_SourceValidatesAgainstOwnSchema ==
  (Generated /\ ~genLog.merge) =>
    LET out == validateEnv(schemaFile, genLog.envConfig, FALSE)
    IN /\ ~out.threw
       /\ out.success
       /\ out.errors = <<>>
       /\ out.validatedCount
            = Cardinality({i \in 1..Len(genLog.envConfig) : genLog.envConfig[i][2] # <<>>})

(***************************************************************************)
(* Closure of a generated schema                                           *)
(***************************************************************************)
DocKeys(doc) == {doc.properties[j][1] : j \in 1..Len(doc.properties)}

\* C30: in the document a run writes, every name in `required` is a key of
\* `properties`, and a name the code scan reports that is neither in the
\* source nor a key of the prior schema's `properties` is in neither
\* `properties` nor `required`.
C30_RequiredWithinProperties ==
  [][RunStep =>
       /\ HasFileDoc(schemaFile')
       /\ FileDoc(schemaFile') = genLog'.schema
       /\ \A r \in 1..Len(genLog'.schema.required) :
            genLog'.schema.required[r] \in DocKeys(genLog'.schema)
       /\ \A c \in 1..Len(codeVars) :
            (codeVars[c] \notin KeySet(envFile) /\ ~DocHasKey(schemaFile, codeVars[c]))
              => /\ codeVars[c] \notin DocKeys(genLog'.schema)
                 /\ ~InSeq(genLog'.schema.required, codeVars[c])]_vars

\* A merge-mode run over a schema whose `required` named a scanned variable
\* that is no key of `properties`: the name is gone, and `required` keeps
\* the name that is a key.
C30_Witness ==
  /\ Generated
  /\ genLog.merge
  /\ hist.userFile = File(JsonText(StrictDoc))
  /\ hist.merges = 1
  /\ InSeq(codeVars, EXTRA)
  /\ EXTRA \notin DocKeys(FileDoc(schemaFile))
  /\ ~InSeq(FileDoc(schemaFile).required, EXTRA)
  /\ InSeq(FileDoc(schemaFile).required, PORT)

====
